---- MODULE Spec2Model ----
(***************************************************************************)
(* A model of lem's annotation parser (internal/testcase.go) and of its    *)
(* test registry (internal/tree.go).                                       *)
(*                                                                         *)
(* Strings are sequences of one-character strings, so that Path() can      *)
(* split a name on "/" the way strings.Split does.                         *)
(*                                                                         *)
(* []TestCase slices are modelled with their backing arrays: a slice is a  *)
(* header (arr, len, cap) over an array of the heap, append() writes in    *)
(* place while len < cap and otherwise copies the elements to a fresh      *)
(* array, and a *TestCase is an (array, index) pair that keeps designating *)
(* the array it was taken from.                                            *)
(*                                                                         *)
(* The Matches / Natches slices of a record are modelled as sequence       *)
(* values: the only writes to them are appends, an append through one copy *)
(* of a slice header writes at or above that header's len, and no other    *)
(* copy of the header ever has a larger len, so a shared backing array is  *)
(* never visible through another copy of the record.                       *)
(***************************************************************************)
EXTENDS Integers, Sequences, FiniteSets, TLC

\* ------------------------------------------------------------------------
\* Bounds of the model
\* ------------------------------------------------------------------------

\* comments scanned by one call of GetTestCases
MaxComments == 4

\* files handed to one call of GetTestCases
MaxFiles == 3

\* ------------------------------------------------------------------------
\* Strings
\* ------------------------------------------------------------------------

EmptyStr == <<>>

IDs == { <<"a">>, <<"b">> }

Names == { <<"x">>, <<"y">> }

Fragments == { <<"f">> }

\* the MIN / MAX digit strings of the alloc and bytes directives; an absent
\* MAX group is the empty string (regexp submatch of an unmatched group)
AllocArgs == { << <<"1">>, <<"2">> >> }

BytesArgs == { << <<"3">>, EmptyStr >> }

\* base names of the files, by position in the argument list
fileNames ==
  [i \in 1..6 |-> << "f", <<"1", "2", "3", "4", "5", "6">>[i], ".", "g", "o" >>]

\* ------------------------------------------------------------------------
\* strconv.ParseInt(s, 10, 64) on a string of digits
\* ------------------------------------------------------------------------

DigitVal == [c \in {"0","1","2","3","4","5","6","7","8","9"} |->
               CASE c = "0" -> 0 [] c = "1" -> 1 [] c = "2" -> 2
                 [] c = "3" -> 3 [] c = "4" -> 4 [] c = "5" -> 5
                 [] c = "6" -> 6 [] c = "7" -> 7 [] c = "8" -> 8
                 [] c = "9" -> 9]

\* the decimal digits of 1<<63 - 1
MaxInt64Digits == << "9","2","2","3","3","7","2","0","3","6","8","5","4",
                     "7","7","5","8","0","7" >>

RECURSIVE StripZeros(_)
StripZeros(s) ==
  IF Len(s) > 1 /\ Head(s) = "0" THEN StripZeros(Tail(s)) ELSE s

RECURSIVE DigitsLeq(_, _)
\* s <= t for two digit strings of the same length
DigitsLeq(s, t) ==
  IF s = <<>> THEN TRUE
  ELSE IF DigitVal[Head(s)] < DigitVal[Head(t)] THEN TRUE
  ELSE IF DigitVal[Head(s)] > DigitVal[Head(t)] THEN FALSE
  ELSE DigitsLeq(Tail(s), Tail(t))

FitsInt64(s) ==
  LET z == StripZeros(s)
  IN  \/ Len(z) < Len(MaxInt64Digits)
      \/ Len(z) = Len(MaxInt64Digits) /\ DigitsLeq(z, MaxInt64Digits)

RECURSIVE DecimalValue(_)
DecimalValue(s) ==
  IF s = <<>> THEN 0
  ELSE 10 * DecimalValue(SubSeq(s, 1, Len(s) - 1)) + DigitVal[s[Len(s)]]

\* [ok, val]: ok is FALSE for the out-of-range error
ParseInt(s) ==
  IF FitsInt64(s) THEN [ok |-> TRUE, val |-> DecimalValue(s)]
  ELSE [ok |-> FALSE, val |-> 0]

\* ------------------------------------------------------------------------
\* Records
\* ------------------------------------------------------------------------

Int64Range(min, max) == [Min |-> min, Max |-> max]

ZeroRange == Int64Range(0, 0)

TestCase(id, name) ==
  [ID |-> id, Name |-> name, AllocOp |-> ZeroRange, BytesOp |-> ZeroRange,
   Matches |-> <<>>, Natches |-> <<>>]

ZeroTestCase == TestCase(EmptyStr, EmptyStr)

\* ------------------------------------------------------------------------
\* Slices of TestCase over the heap of backing arrays
\* ------------------------------------------------------------------------

\* unsafe.Sizeof(TestCase{}) on a 64-bit build: two strings, two Int64Range,
\* two slice headers
TestCaseSize == 112

\* the allocator's size classes that a slice of at most 18 records can get
SizeClasses == << 8, 16, 24, 32, 48, 64, 80, 96, 112, 128, 144, 160, 176, 192,
                  208, 224, 240, 256, 288, 320, 352, 384, 416, 448, 480, 512,
                  576, 640, 704, 768, 896, 1024, 1152, 1280, 1408, 1536,
                  1792, 2048 >>

Roundupsize(size) ==
  LET fit == { i \in 1..Len(SizeClasses) : SizeClasses[i] >= size }
  IN  SizeClasses[CHOOSE i \in fit : \A j \in fit : i <= j]

\* the capacity append() gives the new backing array
Growslice(oldCap, newLen) ==
  LET want == IF newLen > 2 * oldCap THEN newLen ELSE 2 * oldCap
  IN  Roundupsize(want * TestCaseSize) \div TestCaseSize

NilSlice == [arr |-> 0, len |-> 0, cap |-> 0]

NilPtr == [arr |-> 0, idx |-> 0]

Elems(h, s) == IF s.len = 0 THEN <<>> ELSE SubSeq(h[s.arr], 1, s.len)

Deref(h, p) == h[p.arr][p.idx]

Store(h, p, tc) == [h EXCEPT ![p.arr][p.idx] = tc]

\* append(s, xs...): [heap, slice]
AppendSlice(h, s, xs) ==
  IF xs = <<>> THEN [heap |-> h, slice |-> s]
  ELSE IF s.len + Len(xs) <= s.cap
  THEN [heap  |-> [h EXCEPT ![s.arr] =
                     [i \in 1..s.cap |->
                        IF i > s.len /\ i <= s.len + Len(xs)
                        THEN xs[i - s.len] ELSE h[s.arr][i]]],
        slice |-> [s EXCEPT !.len = s.len + Len(xs)]]
  ELSE LET newCap == Growslice(s.cap, s.len + Len(xs))
           old    == Elems(h, s)
           fresh  == [i \in 1..newCap |->
                        IF i <= s.len THEN old[i]
                        ELSE IF i <= s.len + Len(xs) THEN xs[i - s.len]
                        ELSE ZeroTestCase]
       IN  [heap  |-> Append(h, fresh),
            slice |-> [arr |-> Len(h) + 1, len |-> s.len + Len(xs),
                       cap |-> newCap]]

\* a pointer to the first element instead of the last
LastPtr_First(s) == [arr |-> s.arr, idx |-> 1]

LastPtr(s) == [arr |-> s.arr, idx |-> s.len]

\* ------------------------------------------------------------------------
\* State
\* ------------------------------------------------------------------------

VARIABLES
  pc,               \* "loop": GetTestCases between two files; "scan": inside
                    \* getTestCasesInFile; "done": GetTestCases has returned
  heap,             \* the backing arrays of the []TestCase slices
  testCases,        \* GetTestCases' testCases slice
  testCasesInFile,  \* getTestCasesInFile's testCases slice
  lookupTbl,        \* testCaseLookupTable: ID -> *TestCase
  fileNo,           \* position of the current file in the argument list
  lineNo,           \* line of the comment to scan next
  result,           \* the []TestCase GetTestCases returned
  err,              \* the error GetTestCases returned ("" is nil)
  scanned           \* the comments scanned so far, in scan order

parserVars == << pc, heap, testCases, testCasesInFile, lookupTbl, fileNo,
                 lineNo, result, err, scanned >>

\* ------------------------------------------------------------------------
\* Comments
\* ------------------------------------------------------------------------

Comment(kind, id, arg, max) ==
  [kind |-> kind, id |-> id, arg |-> arg, max |-> max]

\* the comments of the files of Spec: every directive shape for the ID "a",
\* and for the ID "b" a name and a match
Comments ==
  { Comment("name", <<"a">>, n, EmptyStr) : n \in Names }
  \cup { Comment("alloc", <<"a">>, a[1], a[2]) : a \in AllocArgs }
  \cup { Comment("bytes", <<"a">>, a[1], a[2]) : a \in BytesArgs }
  \cup { Comment("m", id, f, EmptyStr) : id \in IDs, f \in Fragments }
  \cup { Comment("natch", <<"a">>, f, EmptyStr) : f \in Fragments }
  \cup { Comment("name", <<"b">>, <<"x">>, EmptyStr) }

\* the nesting depth of the groups left open at the end of the fragment, -1
\* when a ")" closes a group that was never opened
RECURSIVE Unclosed(_, _)
Unclosed(frag, depth) ==
  IF frag = <<>> THEN depth
  ELSE IF Head(frag) = "(" THEN Unclosed(Tail(frag), depth + 1)
  ELSE IF Head(frag) # ")" THEN Unclosed(Tail(frag), depth)
  ELSE IF depth = 0 THEN -1
  ELSE Unclosed(Tail(frag), depth - 1)

Compiles_Always(frag) == TRUE

\* regexp.Compile of the fragment spliced into the pattern: of the letters,
\* "." and parentheses of the model, the pattern compiles when its groups
\* are balanced ("missing closing )" and "unexpected )" otherwise)
Compiles(frag) == Unclosed(frag, 0) = 0

\* the pattern text of a match or natch, as the values spliced into the
\* format string
LineMatcher(kind, file, line, frag, source) ==
  [Regexp |-> [kind |-> kind, file |-> file, line |-> line, frag |-> frag],
   Source |-> source]

\* ------------------------------------------------------------------------
\* getTestCasesInFile: one iteration of the loop over the comments
\* ------------------------------------------------------------------------

\* a lookup that never finds the record
Get_Miss(tbl, id) == NilPtr

\* testCaseLookupTable.Get
Get(tbl, id) == IF id \in DOMAIN tbl THEN tbl[id] ELSE NilPtr

\* the record of id, created at the end of the file's slice when the table has
\* none: [heap, slice, tbl, tc]
Lookup(h, s, tbl, id, name) ==
  IF Get(tbl, id) # NilPtr
  THEN [heap |-> h, slice |-> s, tbl |-> tbl, tc |-> Get(tbl, id),
        found |-> TRUE]
  ELSE LET a == AppendSlice(h, s, << TestCase(id, name) >>)
       IN  [heap |-> a.heap, slice |-> a.slice,
            tbl |-> [k \in DOMAIN tbl \cup {id} |->
                       IF k = id THEN LastPtr(a.slice) ELSE tbl[k]],
            tc |-> LastPtr(a.slice), found |-> FALSE]

\* the range an alloc or bytes directive stores: [ok, range]
ParseRange(old, min, max) ==
  LET lo == ParseInt(min)
      hi == ParseInt(max)
  IN  IF ~lo.ok THEN [ok |-> FALSE, range |-> old]
      ELSE IF max = EmptyStr
      THEN [ok |-> TRUE, range |-> Int64Range(lo.val, lo.val)]
      ELSE IF ~hi.ok
      THEN [ok |-> FALSE, range |-> Int64Range(lo.val, old.Max)]
      ELSE [ok |-> TRUE, range |-> Int64Range(lo.val, hi.val)]

\* the effect of one comment: [heap, slice, tbl, err]
ScanEffect(h, s, tbl, c, file, line, source) ==
  CASE c.kind = "name" ->
         LET l == Lookup(h, s, tbl, c.id, c.arg)
         IN  IF l.found /\ Deref(h, l.tc).Name # EmptyStr
             THEN [heap |-> h, slice |-> s, tbl |-> tbl,
                   err |-> "duplicate name"]
             ELSE IF l.found
             THEN [heap |-> Store(h, l.tc,
                              [Deref(h, l.tc) EXCEPT !.Name = c.arg]),
                   slice |-> s, tbl |-> tbl, err |-> ""]
             ELSE [heap |-> l.heap, slice |-> l.slice, tbl |-> l.tbl,
                   err |-> ""]
    [] c.kind = "alloc" ->
         LET l == Lookup(h, s, tbl, c.id, EmptyStr)
             t == Deref(l.heap, l.tc)
             r == ParseRange(t.AllocOp, c.arg, c.max)
         IN  [heap |-> Store(l.heap, l.tc, [t EXCEPT !.AllocOp = r.range]),
              slice |-> l.slice, tbl |-> l.tbl,
              err |-> IF r.ok THEN "" ELSE "value out of range"]
    [] c.kind = "bytes" ->
         LET l == Lookup(h, s, tbl, c.id, EmptyStr)
             t == Deref(l.heap, l.tc)
             r == ParseRange(t.BytesOp, c.arg, c.max)
         IN  [heap |-> Store(l.heap, l.tc, [t EXCEPT !.BytesOp = r.range]),
              slice |-> l.slice, tbl |-> l.tbl,
              err |-> IF r.ok THEN "" ELSE "value out of range"]
    [] c.kind = "m" ->
         LET l == Lookup(h, s, tbl, c.id, EmptyStr)
             t == Deref(l.heap, l.tc)
             lm == LineMatcher("m", file, line, c.arg, source)
         IN  IF ~Compiles(c.arg)
             THEN [heap |-> l.heap, slice |-> l.slice, tbl |-> l.tbl,
                   err |-> "error parsing regexp"]
             ELSE [heap |-> Store(l.heap, l.tc,
                              [t EXCEPT !.Matches = Append(@, lm)]),
                   slice |-> l.slice, tbl |-> l.tbl, err |-> ""]
    [] c.kind = "natch" ->
         LET l == Lookup(h, s, tbl, c.id, EmptyStr)
             t == Deref(l.heap, l.tc)
             lm == LineMatcher("natch", file, line, c.arg, source)
         IN  IF ~Compiles(c.arg)
             THEN [heap |-> l.heap, slice |-> l.slice, tbl |-> l.tbl,
                   err |-> "error parsing regexp"]
             ELSE [heap |-> Store(l.heap, l.tc,
                              [t EXCEPT !.Natches = Append(@, lm)]),
                   slice |-> l.slice, tbl |-> l.tbl, err |-> ""]
    [] OTHER ->
         [heap |-> h, slice |-> s, tbl |-> tbl, err |-> ""]

\* ------------------------------------------------------------------------
\* TestCase.Path
\* ------------------------------------------------------------------------

RECURSIVE SplitFrom(_, _)
\* strings.Split(s, "/"), cur being the piece read so far
SplitFrom(s, cur) ==
  IF s = <<>> THEN << cur >>
  ELSE IF Head(s) = "/" THEN << cur >> \o SplitFrom(Tail(s), <<>>)
  ELSE SplitFrom(Tail(s), Append(cur, Head(s)))

Split(s) == SplitFrom(s, <<>>)

\* a filter that keeps the empty segments
RemoveEmpty_Keep(path) == path

RECURSIVE RemoveEmpty(_)
RemoveEmpty(path) ==
  IF path = <<>> THEN <<>>
  ELSE IF Head(path) = EmptyStr THEN RemoveEmpty(Tail(path))
  ELSE << Head(path) >> \o RemoveEmpty(Tail(path))

\* a path that never starts with the ID
Path_NoID(tc) ==
  RemoveEmpty(IF Len(tc.Name) > 0 THEN Split(tc.Name) ELSE <<>>)

Path(tc) ==
  LET first == IF Len(tc.Name) = 0 \/ tc.Name[1] # "/"
               THEN << tc.ID >> ELSE <<>>
      rest  == IF Len(tc.Name) > 0 THEN Split(tc.Name) ELSE <<>>
  IN  RemoveEmpty(first \o rest)

\* ------------------------------------------------------------------------
\* Tree and TreeNode
\* ------------------------------------------------------------------------

\* a Go map: nil until made; kv is the function it holds
NilMap == [nil |-> TRUE, kv |-> <<>>]

EmptyMap == [nil |-> FALSE, kv |-> <<>>]

\* a map look-up that never finds the key
MapHas_Never(m, k) == FALSE

MapHas(m, k) == k \in DOMAIN m.kv

MapPut(m, k, v) ==
  [nil |-> FALSE,
   kv  |-> [x \in DOMAIN m.kv \cup {k} |-> IF x = k THEN v ELSE m.kv[x]]]

\* TreeNode{}: the Nodes of a node are kept as positions in the sequence of
\* all the nodes of the tree, the root being node 1
ZeroTreeNode ==
  [Once |-> FALSE, Index |-> NilMap, Steps |-> <<>>, Nodes |-> <<>>,
   Tests |-> NilSlice]

Root == 1

\* tr.Once.Do(func() { tr.Index = map[string]int{} })
OnceDo(node) ==
  IF node.Once THEN node ELSE [node EXCEPT !.Once = TRUE, !.Index = EmptyMap]

\* the record stored under the name it came with
Leaf_KeepsName(testCase, path) == testCase

\* the record as stored in the leaf: its name becomes the only segment left
Leaf(testCase, path) ==
  IF Len(path) = 1 THEN [testCase EXCEPT !.Name = path[1]] ELSE testCase

\* a child added without its segment being appended to Steps
NewChild_NoStep(node, step, child) ==
  [node EXCEPT !.Index = MapPut(@, step, Len(node.Nodes)),
               !.Nodes = Append(@, child)]

\* the node after a child for the segment step was added; child is the
\* position of the new TreeNode{}
NewChild(node, step, child) ==
  [node EXCEPT !.Index = MapPut(@, step, Len(node.Nodes)),
               !.Nodes = Append(@, child),
               !.Steps = Append(@, step)]

RECURSIVE insert(_, _, _, _, _)
\* TreeNode.insert on node n: [nodes, heap, tc]
insert(ns, th, n, testCase, path) ==
  LET ns1 == [ns EXCEPT ![n] = OnceDo(@)]
  IN  IF Len(path) < 2
      THEN LET a == AppendSlice(th, ns1[n].Tests, << Leaf(testCase, path) >>)
           IN  [nodes |-> [ns1 EXCEPT ![n].Tests = a.slice],
                heap  |-> a.heap,
                tc    |-> LastPtr(a.slice)]
      ELSE LET ns2 ==
                 IF MapHas(ns1[n].Index, path[1]) THEN ns1
                 ELSE Append(
                        [ns1 EXCEPT
                           ![n] = NewChild(@, path[1], Len(ns1) + 1)],
                        ZeroTreeNode)
               child == ns2[n].Nodes[ns2[n].Index.kv[path[1]] + 1]
           IN  insert(ns2, th, child, testCase, Tail(path))

\* ------------------------------------------------------------------------
\* State of the registry
\* ------------------------------------------------------------------------

VARIABLES
  nodes,      \* the TreeNodes of the tree, nodes[Root] being Tree.TreeNode
  testHeap,   \* the backing arrays of the Tests slices
  testsByID,  \* Tree.testsByID: ID -> *TestCase
  calls,      \* the Insert calls made so far: argument and returned pointer
  lastCall    \* the last call of Insert or Get and the pointer it returned

treeVars == << nodes, testHeap, testsByID, calls, lastCall >>

\* ------------------------------------------------------------------------
\* State of a run of the tree, and of the calls of the pure functions
\* ------------------------------------------------------------------------

VARIABLES
  runPc,      \* "idle": Tree.Run not called; "running"; "done": it returned
  ctx,        \* the Context handed to Tree.Run
  stack,      \* the frames of TreeNode.run on the call stack, innermost last
  report      \* what the sub-tests run so far did, in the order they ran

engineVars == << runPc, ctx, stack, report >>

VARIABLES
  fnIn,       \* receiver and arguments of the method called
  fnOut       \* what the method returned

fnVars == << fnIn, fnOut >>

vars == << parserVars, treeVars, engineVars, fnVars >>

NoCall == [op |-> "none", id |-> EmptyStr, ret |-> NilPtr]

\* the zero Context
ZeroContext == [Benchmarks |-> NilMap, BuildOutput |-> <<>>]

NotCalled == [fn |-> "none"]

ParserInit ==
  /\ pc = "loop"
  /\ heap = <<>>
  /\ testCases = NilSlice
  /\ testCasesInFile = NilSlice
  /\ lookupTbl = <<>>
  /\ fileNo = 0
  /\ lineNo = 0
  /\ result = <<>>
  /\ err = ""
  /\ scanned = <<>>

TreeInit ==
  /\ nodes = << ZeroTreeNode >>
  /\ testHeap = <<>>
  /\ testsByID = NilMap
  /\ calls = <<>>
  /\ lastCall = NoCall

EngineInit ==
  /\ runPc = "idle"
  /\ ctx = ZeroContext
  /\ stack = <<>>
  /\ report = <<>>

FnInit ==
  /\ fnIn = NotCalled
  /\ fnOut = NotCalled

Init == ParserInit /\ TreeInit /\ EngineInit /\ FnInit

\* ------------------------------------------------------------------------
\* GetTestCases
\* ------------------------------------------------------------------------

\* the loop of GetTestCases enters getTestCasesInFile for the next file, which
\* parses the file and reads its lines
BeginFile ==
  /\ pc = "loop"
  /\ fileNo < MaxFiles
  /\ pc' = "scan"
  /\ fileNo' = fileNo + 1
  /\ lineNo' = 1
  /\ testCasesInFile' = NilSlice
  /\ UNCHANGED << heap, testCases, lookupTbl, result, err, scanned,
                  treeVars, engineVars, fnVars >>

\* parser.ParseFile or os.ReadFile fails on the next file
FileError ==
  /\ pc = "loop"
  /\ fileNo < MaxFiles
  /\ pc' = "done"
  /\ fileNo' = fileNo + 1
  /\ result' = <<>>
  /\ err' = "file error"
  /\ UNCHANGED << heap, testCases, testCasesInFile, lookupTbl, lineNo,
                  scanned, treeVars, engineVars, fnVars >>

\* one iteration of the loop over the comments of the file: the comment c is
\* on line lineNo and source is the text readLines holds at lines[lineNo]
ScanComment(c, source) ==
  /\ pc = "scan"
  /\ Len(scanned) < MaxComments
  /\ LET e == ScanEffect(heap, testCasesInFile, lookupTbl, c,
                         fileNames[fileNo], lineNo, source)
     IN  /\ scanned' = Append(scanned,
                         [file |-> fileNo, line |-> lineNo, c |-> c])
         /\ heap' = e.heap
         /\ testCasesInFile' = e.slice
         /\ lookupTbl' = e.tbl
         /\ IF e.err # ""
            THEN /\ pc' = "done"
                 /\ result' = <<>>
                 /\ err' = e.err
                 /\ UNCHANGED lineNo
            ELSE /\ lineNo' = lineNo + 2
                 /\ UNCHANGED << pc, result, err >>
  /\ UNCHANGED << testCases, fileNo, treeVars, engineVars, fnVars >>

\* getTestCasesInFile returns its slice; GetTestCases appends it to testCases
\* and maps the appended records in the lookup table (every file of the model
\* holds at least one comment)
EndFile ==
  /\ pc = "scan"
  /\ lineNo > 1
  /\ LET a   == AppendSlice(heap, testCases, Elems(heap, testCasesInFile))
         new == (testCases.len + 1)..a.slice.len
         at(id) == CHOOSE i \in new :
                     /\ a.heap[a.slice.arr][i].ID = id
                     /\ \A j \in new :
                          a.heap[a.slice.arr][j].ID = id => j <= i
         ids == { a.heap[a.slice.arr][i].ID : i \in new }
     IN  /\ heap' = a.heap
         /\ testCases' = a.slice
         /\ lookupTbl' = [id \in DOMAIN lookupTbl \cup ids |->
                            IF id \in ids
                            THEN [arr |-> a.slice.arr, idx |-> at(id)]
                            ELSE lookupTbl[id]]
  /\ pc' = "loop"
  /\ testCasesInFile' = NilSlice
  /\ UNCHANGED << fileNo, lineNo, result, err, scanned, treeVars,
                  engineVars, fnVars >>

\* GetTestCases has no file left and returns testCases
Return ==
  /\ pc = "loop"
  /\ pc' = "done"
  /\ result' = Elems(heap, testCases)
  /\ err' = ""
  /\ UNCHANGED << heap, testCases, testCasesInFile, lookupTbl, fileNo,
                  lineNo, scanned, treeVars, engineVars, fnVars >>

\* the files of Spec hold one comment on every odd line and an empty line
\* after it
Next ==
  \/ BeginFile
  \/ FileError
  \/ \E c \in Comments : ScanComment(c, EmptyStr)
  \/ EndFile
  \/ Return

Spec == Init /\ [][Next]_vars

\* ------------------------------------------------------------------------
\* Tree.Insert and Tree.Get
\* ------------------------------------------------------------------------

\* calls of Insert in one run
MaxInserts == 3

TreeIDs == { <<"a">>, <<"b">>, <<"c">> }

\* "", "/a", "/a/b", "a//b", "/"
TreeNames == { EmptyStr, <<"/", "a">>, <<"/", "a", "/", "b">>,
               <<"a", "/", "/", "b">>, <<"/">> }

\* the records handed to Insert: every ID with every name, and the ID "a"
\* also with an alloc range set
TreeInputs ==
  { TestCase(id, n) : id \in TreeIDs, n \in TreeNames }
  \cup { [TestCase(<<"a">>, EmptyStr) EXCEPT !.AllocOp = Int64Range(1, 1)] }

\* an index look-up that never finds the ID
TreeGet_Miss(byID, id) == NilPtr

\* tr.testsByID[id]
TreeGet(byID, id) == IF MapHas(byID, id) THEN byID.kv[id] ELSE NilPtr

\* an Insert that leaves a record without a path out of the ID index
TreeInsert_PathlessNotIndexed(t, testCase) ==
  LET ns0  == [t.nodes EXCEPT ![Root] = OnceDo(@)]
      byID == IF t.nodes[Root].Once THEN t.byID ELSE EmptyMap
      tc   == TreeGet(byID, testCase.ID)
      r    == insert(ns0, t.heap, Root, testCase, Path(testCase))
  IN  IF tc # NilPtr
      THEN [nodes |-> ns0, heap |-> t.heap, byID |-> byID, ret |-> tc]
      ELSE [nodes |-> r.nodes, heap |-> r.heap,
            byID |-> IF Path(testCase) = <<>> THEN byID
                     ELSE MapPut(byID, Deref(r.heap, r.tc).ID, r.tc),
            ret |-> r.tc]

\* Tree.Insert on the tree t = [nodes, heap, byID]: the tree it leaves and the
\* pointer it returns
TreeInsert(t, testCase) ==
  LET ns0  == [t.nodes EXCEPT ![Root] = OnceDo(@)]
      byID == IF t.nodes[Root].Once THEN t.byID ELSE EmptyMap
      tc   == TreeGet(byID, testCase.ID)
      r    == insert(ns0, t.heap, Root, testCase, Path(testCase))
  IN  IF tc # NilPtr
      THEN [nodes |-> ns0, heap |-> t.heap, byID |-> byID, ret |-> tc]
      ELSE [nodes |-> r.nodes, heap |-> r.heap,
            byID |-> MapPut(byID, Deref(r.heap, r.tc).ID, r.tc),
            ret |-> r.tc]

Insert(testCase) ==
  /\ pc = "loop" /\ fileNo = 0
  /\ Len(calls) < MaxInserts
  /\ LET r == TreeInsert([nodes |-> nodes, heap |-> testHeap,
                          byID |-> testsByID], testCase)
     IN  /\ nodes' = r.nodes
         /\ testHeap' = r.heap
         /\ testsByID' = r.byID
         /\ calls' = Append(calls, [arg |-> testCase, ret |-> r.ret])
         /\ lastCall' = [op |-> "Insert", id |-> testCase.ID, ret |-> r.ret]
  /\ UNCHANGED << parserVars, engineVars, fnVars >>

TreeGetCall(id) ==
  /\ pc = "loop" /\ fileNo = 0
  /\ lastCall' = [op |-> "Get", id |-> id, ret |-> TreeGet(testsByID, id)]
  /\ UNCHANGED << nodes, testHeap, testsByID, calls, parserVars,
                  engineVars, fnVars >>

NextTree ==
  \/ \E testCase \in TreeInputs : Insert(testCase)
  \/ \E id \in TreeIDs : TreeGetCall(id)

SpecTree == Init /\ [][NextTree]_vars

\* ------------------------------------------------------------------------
\* What a scan is expected to return, read off the scanned comments
\* ------------------------------------------------------------------------

Recognized(k) == scanned[k].c.kind # "other"

\* the positions of the comments of one kind for one ID, in scan order
Positions(kind, id) ==
  { k \in 1..Len(scanned) : scanned[k].c.kind = kind /\ scanned[k].c.id = id }

RECURSIVE SortedSeq(_)
\* the elements of a finite set of numbers in increasing order
SortedSeq(S) ==
  IF S = {} THEN <<>>
  ELSE LET m == CHOOSE x \in S : \A y \in S : x <= y
       IN  << m >> \o SortedSeq(S \ {m})

\* the pattern a match or natch comment at position k compiles to
PatternAt(k) ==
  [kind |-> scanned[k].c.kind, file |-> fileNames[scanned[k].file],
   line |-> scanned[k].line, frag |-> scanned[k].c.arg]

ExpectedPatterns(kind, id) ==
  LET ks == SortedSeq(Positions(kind, id))
  IN  [i \in 1..Len(ks) |-> PatternAt(ks[i])]

Patterns(lms) == [i \in 1..Len(lms) |-> lms[i].Regexp]

\* the range an accepted alloc or bytes comment at position k denotes
RangeAt(k) ==
  LET lo == DecimalValue(scanned[k].c.arg)
  IN  IF scanned[k].c.max = EmptyStr THEN Int64Range(lo, lo)
      ELSE Int64Range(lo, DecimalValue(scanned[k].c.max))

\* the IDs of the recognized comments, each once, in order of first reference
RECURSIVE FirstSeen(_)
FirstSeen(n) ==
  IF n = 0 THEN <<>>
  ELSE LET before == FirstSeen(n - 1)
           id     == scanned[n].c.id
       IN  IF ~Recognized(n) \/ \E i \in 1..Len(before) : before[i] = id
           THEN before
           ELSE Append(before, id)

RecordIDs(tcs) == [i \in 1..Len(tcs) |-> tcs[i].ID]

Returned == pc = "done" /\ err = ""

\* the comment at position k refers to an ID that an earlier comment created
Extends(k) == \E i \in 1..(k - 1) : Recognized(i) /\ scanned[i].c.id = scanned[k].c.id

\* no later comment of the same kind refers to the same ID
LastOfKind(k) ==
  \A j \in (k + 1)..Len(scanned) :
    ~(scanned[j].c.kind = scanned[k].c.kind /\ scanned[j].c.id = scanned[k].c.id)

\* the returned record tc shows the effect of the comment at position k
EffectHeld(tc, k) ==
  CASE scanned[k].c.kind = "name"  -> LastOfKind(k) => tc.Name = scanned[k].c.arg
    [] scanned[k].c.kind = "alloc" -> LastOfKind(k) => tc.AllocOp = RangeAt(k)
    [] scanned[k].c.kind = "bytes" -> LastOfKind(k) => tc.BytesOp = RangeAt(k)
    [] scanned[k].c.kind = "m" ->
         \E i \in 1..Len(tc.Matches) : tc.Matches[i].Regexp = PatternAt(k)
    [] scanned[k].c.kind = "natch" ->
         \E i \in 1..Len(tc.Natches) : tc.Natches[i].Regexp = PatternAt(k)
    [] OTHER -> TRUE

\* ------------------------------------------------------------------------
\* Claims about GetTestCases
\* ------------------------------------------------------------------------

\* C1: after a scan that raises no error, the record returned for each ID has
\* Matches equal to the list of all the m= directives of that ID in scan order
\* and Natches equal to the list of all its m!= directives in scan order.
C1_AssertionsInScanOrder ==
  Returned =>
    \A i \in 1..Len(result) :
      /\ Patterns(result[i].Matches) = ExpectedPatterns("m", result[i].ID)
      /\ Patterns(result[i].Natches) = ExpectedPatterns("natch", result[i].ID)

\* C2: once two name directives for the same ID have been scanned,
\* GetTestCases has returned the duplicate-name error and no records.
C2_DuplicateNameIsAnError ==
  (\E id \in IDs : Cardinality(Positions("name", id)) >= 2) =>
    /\ pc = "done"
    /\ err = "duplicate name"
    /\ result = <<>>

\* C3: a name, alloc or bytes directive for an ID whose record an earlier
\* directive created is applied to that record: the returned record of the ID
\* has the directive's name, respectively its range.
C3_LaterDirectiveApplied ==
  Returned =>
    \A k \in 1..Len(scanned) :
      (scanned[k].c.kind \in {"name", "alloc", "bytes"} /\ Extends(k)) =>
        \E i \in 1..Len(result) :
          /\ result[i].ID = scanned[k].c.id
          /\ EffectHeld(result[i], k)

\* C4: a directive in a later file that refers to an ID first seen in any
\* earlier file extends the record of that ID: the result holds that
\* directive's effect in the single record of the ID.
C4_MergeSpansFiles ==
  Returned =>
    \A k \in 1..Len(scanned) :
      (\E j \in 1..(k - 1) :
         /\ Recognized(j)
         /\ scanned[j].c.id = scanned[k].c.id
         /\ scanned[j].file < scanned[k].file) =>
        /\ Cardinality({ i \in 1..Len(result) :
                          result[i].ID = scanned[k].c.id }) = 1
        /\ \A i \in 1..Len(result) :
             result[i].ID = scanned[k].c.id => EffectHeld(result[i], k)

\* C5: while no error is raised, the records collected so far are exactly one
\* per distinct ID referenced by a recognized directive, in the order in which
\* the IDs were first referenced, and an error-free scan returns them so.
C5_OneRecordPerIDInFirstSeenOrder ==
  /\ (pc # "done") =>
       RecordIDs(Elems(heap, testCases) \o Elems(heap, testCasesInFile))
         = FirstSeen(Len(scanned))
  /\ Returned => RecordIDs(result) = FirstSeen(Len(scanned))

\* an error-free scan of three files has returned two records, the second
\* file referring both to the ID of the first file and to a new one
C5_Witness ==
  /\ Returned
  /\ Len(result) = 2
  /\ fileNo = 3
  /\ \E j, k \in 1..Len(scanned) :
       /\ j < k
       /\ scanned[j].file = 1 /\ scanned[k].file = 2
       /\ scanned[j].c.id = scanned[k].c.id
  /\ \E k \in 1..Len(scanned) :
       /\ scanned[k].file = 2
       /\ scanned[k].c.id # scanned[1].c.id

\* ------------------------------------------------------------------------
\* What the tree is expected to hold, read off the Insert calls
\* ------------------------------------------------------------------------

LeavesIn(ns, th, n) == Elems(th, ns[n].Tests)

Leaves(n) == LeavesIn(nodes, testHeap, n)

\* the leaf slots of the whole tree
LeafSlots ==
  UNION { { << n, i >> : i \in 1..Len(Leaves(n)) } : n \in 1..Len(nodes) }

LeafAt(s) == Leaves(s[1])[s[2]]

SlotsOf(id) == { s \in LeafSlots : LeafAt(s).ID = id }

CallIDs == { calls[k].arg.ID : k \in 1..Len(calls) }

\* the call k is the first Insert of its ID
Fresh(k) == \A j \in 1..(k - 1) : calls[j].arg.ID # calls[k].arg.ID

FirstCall(id) == CHOOSE k \in 1..Len(calls) : calls[k].arg.ID = id /\ Fresh(k)

RECURSIVE Walk(_, _, _)
\* the node reached from n through the segments segs, 0 when a child is missing
Walk(ns, n, segs) ==
  IF segs = <<>> THEN n
  ELSE IF Head(segs) \notin DOMAIN ns[n].Index.kv THEN 0
  ELSE Walk(ns, ns[n].Nodes[ns[n].Index.kv[Head(segs)] + 1], Tail(segs))

Front(p) == IF p = <<>> THEN <<>> ELSE SubSeq(p, 1, Len(p) - 1)

\* the record the first Insert of an ID stores
Stored(testCase) ==
  LET p == Path(testCase)
  IN  IF p = <<>> THEN testCase ELSE [testCase EXCEPT !.Name = p[Len(p)]]

\* the step is a call of Insert
InsertStep == Len(calls') = Len(calls) + 1

Arg == calls'[Len(calls')].arg

\* ------------------------------------------------------------------------
\* Claims about the tree
\* ------------------------------------------------------------------------

C6_OneLeafPerID ==
  \A id \in TreeIDs :
    Cardinality(SlotsOf(id)) = IF id \in CallIDs THEN 1 ELSE 0

C6_ReinsertChangesNothing ==
  (InsertStep /\ Arg.ID \in CallIDs) =>
    /\ nodes' = nodes
    /\ testHeap' = testHeap
    /\ testsByID' = testsByID
    /\ lastCall'.ret = calls[FirstCall(Arg.ID)].ret
    /\ Deref(testHeap', lastCall'.ret) = Stored(calls[FirstCall(Arg.ID)].arg)

\* C6: after any sequence of Insert calls the tree holds exactly one leaf per
\* distinct ID inserted, and an Insert of an ID already in the index returns
\* the first record and leaves every node, leaf and index entry unchanged.
C6_InsertIdempotentByID ==
  []C6_OneLeafPerID /\ [][C6_ReinsertChangesNothing]_vars

\* a second Insert of an ID, with another name and another range than the
\* first, has returned
C6_Witness ==
  /\ Len(calls) >= 2
  /\ \E j, k \in 1..Len(calls) :
       /\ j < k
       /\ calls[j].arg.ID = calls[k].arg.ID
       /\ calls[j].arg.Name # calls[k].arg.Name
       /\ calls[j].arg.AllocOp # calls[k].arg.AllocOp
       /\ calls[k].ret = calls[j].ret

\* the placement of the record of a first Insert whose path has n segments
C7_Placed ==
  (InsertStep /\ Arg.ID \notin CallIDs /\ Path(Arg) # <<>>) =>
    LET p      == Path(Arg)
        n      == Len(p)
        target == Walk(nodes', Root, Front(p))
        missing == { k \in 1..(n - 1) : Walk(nodes, Root, SubSeq(p, 1, k)) = 0 }
    IN  /\ target # 0
        /\ LeavesIn(nodes', testHeap', target) # <<>>
        /\ LET ls == LeavesIn(nodes', testHeap', target)
           IN  ls[Len(ls)] = [Arg EXCEPT !.Name = p[n]]
        /\ Len(nodes') - Len(nodes) = Cardinality(missing)
        /\ n = 1 => (target = Root /\ Len(nodes') = Len(nodes))
        /\ Arg.Name = EmptyStr =>
             LET ls == LeavesIn(nodes', testHeap', Root)
             IN  ls[Len(ls)] = [Arg EXCEPT !.Name = Arg.ID]

\* C7: Insert of a record with a new ID and path p1..pn makes it the last leaf
\* of the node reached from the root through p1..p(n-1), creating the missing
\* child nodes, with stored name pn; for n = 1 it is a leaf of the root and no
\* node is created; a record with an empty name is a root leaf named by its ID.
C7_InsertPlacesByPath == [][C7_Placed]_vars

\* the tree holds a leaf two levels down, a leaf of the root whose name was
\* rewritten to its only segment, and a leaf of the root named by its ID
C7_Witness ==
  /\ \E k \in 1..Len(calls) :
       /\ Fresh(k) /\ Len(Path(calls[k].arg)) = 3
       /\ Deref(testHeap, calls[k].ret).Name = <<"b">>
  /\ \E k \in 1..Len(calls) :
       /\ Fresh(k) /\ calls[k].arg.Name = <<"/", "a">>
       /\ Deref(testHeap, calls[k].ret).Name = <<"a">>
  /\ \E k \in 1..Len(calls) :
       /\ Fresh(k) /\ calls[k].arg.Name = EmptyStr
       /\ Deref(testHeap, calls[k].ret).Name = calls[k].arg.ID

\* C8: in every node Steps, Nodes and Index have the same size, the segments
\* of Steps are pairwise distinct, and Index[s] = i exactly when Steps[i] = s
\* (i counted from 0).
C8_IndexMatchesSteps ==
  \A n \in 1..Len(nodes) :
    LET node == nodes[n]
    IN  /\ Len(node.Steps) = Len(node.Nodes)
        /\ Cardinality(DOMAIN node.Index.kv) = Len(node.Steps)
        /\ \A i, j \in 1..Len(node.Steps) :
             node.Steps[i] = node.Steps[j] => i = j
        /\ \A s \in DOMAIN node.Index.kv :
             /\ node.Index.kv[s] + 1 \in 1..Len(node.Steps)
             /\ node.Steps[node.Index.kv[s] + 1] = s
        /\ \A i \in 1..Len(node.Steps) :
             /\ node.Steps[i] \in DOMAIN node.Index.kv
             /\ node.Index.kv[node.Steps[i]] = i - 1

\* a node has two children
C8_Witness ==
  \E n \in 1..Len(nodes) : Len(nodes[n].Steps) = 2 /\ Len(nodes[n].Nodes) = 2

\* the path of the call k when it is the first Insert of its ID
PathOf(k) == Path(calls[k].arg)

IsPrefix(q, p) == Len(q) <= Len(p) /\ SubSeq(p, 1, Len(q)) = q

\* the group paths: the root's, and every prefix of the path of a first
\* Insert that is shorter than the path
Groups ==
  { <<>> } \cup
  UNION { { SubSeq(PathOf(k), 1, j) : j \in 0..(Len(PathOf(k)) - 1) } :
            k \in { i \in 1..Len(calls) : Fresh(i) } }

RECURSIVE StepsSeen(_, _)
\* the segments below the group q used by the first n calls, each once, in
\* order of first use
StepsSeen(q, n) ==
  IF n = 0 THEN <<>>
  ELSE LET before == StepsSeen(q, n - 1)
           p      == PathOf(n)
       IN  IF Fresh(n) /\ IsPrefix(q, p) /\ Len(p) >= Len(q) + 2
              /\ ~\E i \in 1..Len(before) : before[i] = p[Len(q) + 1]
           THEN Append(before, p[Len(q) + 1])
           ELSE before

RECURSIVE LeavesSeen(_, _)
\* the IDs of the records the first n calls put in the group q, in call order
LeavesSeen(q, n) ==
  IF n = 0 THEN <<>>
  ELSE IF Fresh(n) /\ Front(PathOf(n)) = q
       THEN Append(LeavesSeen(q, n - 1), calls[n].arg.ID)
       ELSE LeavesSeen(q, n - 1)

\* C9: records whose paths share a prefix share the nodes of that prefix (the
\* tree has one node per distinct group path), in every node Steps lists the
\* segments in the order in which the first record using each was inserted,
\* and Tests lists the leaves of the node in the order of their Insert calls.
C9_SharedGroupsFirstSeenOrder ==
  /\ Len(nodes) = Cardinality(Groups)
  /\ \A q \in Groups :
       LET n == Walk(nodes, Root, q)
       IN  /\ n # 0
           /\ nodes[n].Steps = StepsSeen(q, Len(calls))
           /\ RecordIDs(Leaves(n)) = LeavesSeen(q, Len(calls))
  /\ \A q1, q2 \in Groups :
       Walk(nodes, Root, q1) = Walk(nodes, Root, q2) => q1 = q2

\* two records share a two-level group, which holds them in the order of
\* their Insert calls, and a later record opened a second child of the root
C9_Witness ==
  /\ \E n \in 1..Len(nodes) :
       /\ n # Root
       /\ Len(Leaves(n)) = 2
       /\ \E j, k \in 1..Len(calls) :
            /\ j < k
            /\ Leaves(n)[1].ID = calls[j].arg.ID
            /\ Leaves(n)[2].ID = calls[k].arg.ID
  /\ Len(nodes[Root].Steps) = 2

\* the result of a Get: a record exactly for the IDs inserted, equal in every
\* field to the one leaf of that ID
C10_GetResult ==
  lastCall.op = "Get" =>
    /\ (lastCall.ret # NilPtr) <=> (lastCall.id \in CallIDs)
    /\ lastCall.ret # NilPtr =>
         \E s \in LeafSlots :
           /\ SlotsOf(lastCall.id) = { s }
           /\ Deref(testHeap, lastCall.ret) = LeafAt(s)
           /\ LeafAt(s) = Stored(calls[FirstCall(lastCall.id)].arg)

\* a call that is not an Insert changes neither the nodes, the leaves nor the
\* ID index
C10_GetChangesNothing ==
  (~InsertStep) => UNCHANGED << nodes, testHeap, testsByID >>

\* C10: Get(id) returns a record if and only if a record with that ID was
\* inserted, the record is equal in every field to the unique leaf with that
\* ID, and a Get (of an inserted ID or not, also on a tree with no Insert)
\* changes nothing.
C10_GetFindsInsertedRecord ==
  []C10_GetResult /\ [][C10_GetChangesNothing]_vars

\* Get has returned the record of an ID whose leaf is no more in the backing
\* array it was appended to
C10_Witness ==
  /\ lastCall.op = "Get"
  /\ lastCall.ret # NilPtr
  /\ \E s \in SlotsOf(lastCall.id) :
       nodes[s[1]].Tests.arr # lastCall.ret.arr

\* Get of an ID never inserted has returned no record, once on a tree with no
\* Insert at all
C10_WitnessAbsent ==
  /\ lastCall.op = "Get"
  /\ lastCall.ret = NilPtr
  /\ calls = <<>>

\* ------------------------------------------------------------------------
\* TestCase.Path called on its own
\* ------------------------------------------------------------------------

\* characters of a name handed to Path
MaxNameLen == 3

\* "", "a" and "a/b": the ID is never split
PathIDs == { EmptyStr, <<"a">>, <<"a", "/", "b">> }

PathNames ==
  UNION { [1..n -> {"/", "a", "b"}] : n \in 0..MaxNameLen }

InitPath ==
  /\ ParserInit /\ TreeInit /\ EngineInit
  /\ fnIn \in { [fn |-> "Path", tc |-> TestCase(id, n)] :
                  id \in PathIDs, n \in PathNames }
  /\ fnOut = NotCalled

CallPath ==
  /\ fnIn.fn = "Path"
  /\ fnOut = NotCalled
  /\ fnOut' = [fn |-> "Path", ret |-> Path(fnIn.tc)]
  /\ UNCHANGED << parserVars, treeVars, engineVars, fnIn >>

NextPath == CallPath

SpecPath == InitPath /\ [][NextPath]_vars

\* the positions of a name at which a piece that is not empty starts
PieceStarts(name) ==
  { i \in 1..Len(name) : name[i] # "/" /\ (i = 1 \/ name[i - 1] = "/") }

\* the piece of a name that starts at position i
PieceAt(name, i) ==
  LET j == CHOOSE k \in i..Len(name) :
             /\ \A l \in i..k : name[l] # "/"
             /\ k = Len(name) \/ name[k + 1] = "/"
  IN  SubSeq(name, i, j)

ExpectedPath(id, name) ==
  LET withID == name = EmptyStr \/ name[1] # "/"
      starts == SortedSeq(PieceStarts(name))
  IN  (IF withID /\ id # EmptyStr THEN << id >> ELSE <<>>)
      \o [k \in 1..Len(starts) |-> PieceAt(name, starts[k])]

\* C11: Path returns the ID as first segment exactly when the name is empty
\* or does not start with "/", then the pieces of the name split on "/", with
\* every empty piece and an empty ID removed and the order kept
C11_PathSegments ==
  fnOut.fn = "Path" =>
    fnOut.ret = ExpectedPath(fnIn.tc.ID, fnIn.tc.Name)

\* Path was called on the ID "a/b" and the name "/a/": the ID is left out and
\* the empty pieces are removed
C11_Witness ==
  /\ fnOut.fn = "Path"
  /\ fnIn.tc.ID = <<"a", "/", "b">>
  /\ fnIn.tc.Name = <<"/", "a", "/">>
  /\ fnOut.ret = << <<"a">> >>

\* ------------------------------------------------------------------------
\* The path of a record the tree stores
\* ------------------------------------------------------------------------

\* the leaves stored by the first Insert of an ID whose path is not empty
RewrittenSlots ==
  UNION { SlotsOf(calls[k].arg.ID) :
            k \in { j \in 1..Len(calls) :
                      Fresh(j) /\ Path(calls[j].arg) # <<>> } }

\* C12 as stated: resolving the path of a record stored by Insert, its name
\* rewritten to its leaf segment, yields the single-segment path of that
\* segment
C12_StoredPathIsOneSegment ==
  \A s \in RewrittenSlots : Path(LeafAt(s)) = << LeafAt(s).Name >>

\* C12: resolving the path of a record stored by Insert yields the ID followed
\* by the leaf segment the name was rewritten to, and rewriting the name of
\* the stored record to the last segment of that path leaves it unchanged
C12_StoredPathIsIDThenLeaf ==
  \A s \in RewrittenSlots :
    /\ Path(LeafAt(s)) = << LeafAt(s).ID, LeafAt(s).Name >>
    /\ Stored(LeafAt(s)) = LeafAt(s)

\* a record named "/a/b" was stored as the leaf "b", and one with no name
\* under its ID
C12_Witness ==
  /\ \E s \in RewrittenSlots :
       /\ LeafAt(s).Name = <<"b">>
       /\ calls[FirstCall(LeafAt(s).ID)].arg.Name = <<"/", "a", "/", "b">>
  /\ \E s \in RewrittenSlots :
       /\ LeafAt(s).Name = LeafAt(s).ID
       /\ calls[FirstCall(LeafAt(s).ID)].arg.Name = EmptyStr

\* ------------------------------------------------------------------------
\* Int64Range.Eq
\* ------------------------------------------------------------------------

\* a range that holds its bounds only when they are equal
Eq_Exclusive(i, a) ==
  IF i.Min = i.Max THEN i.Min = a
  ELSE a > i.Min /\ a < i.Max

Eq(i, a) ==
  IF i.Min = i.Max THEN i.Min = a
  ELSE a >= i.Min /\ a <= i.Max

\* the bounds and values handed to Eq lie in -MaxAbs..MaxAbs
MaxAbs == 2

InitEq ==
  /\ ParserInit /\ TreeInit /\ EngineInit
  /\ fnIn \in { [fn |-> "Eq", i |-> Int64Range(min, max), a |-> a] :
                  min \in -MaxAbs..MaxAbs, max \in -MaxAbs..MaxAbs,
                  a \in -MaxAbs..MaxAbs }
  /\ fnOut = NotCalled

CallEq ==
  /\ fnIn.fn = "Eq"
  /\ fnOut = NotCalled
  /\ fnOut' = [fn |-> "Eq", ret |-> Eq(fnIn.i, fnIn.a)]
  /\ UNCHANGED << parserVars, treeVars, engineVars, fnIn >>

NextEq == CallEq

SpecEq == InitEq /\ [][NextEq]_vars

\* C13: Int64Range{Min,Max}.Eq(v) is true iff v = Min when Min = Max, and iff
\* Min <= v <= Max when Min < Max
C13_EqIsInclusiveContainment ==
  fnOut.fn = "Eq" =>
    /\ fnIn.i.Min = fnIn.i.Max => (fnOut.ret <=> fnIn.a = fnIn.i.Min)
    /\ fnIn.i.Min < fnIn.i.Max =>
         (fnOut.ret <=> (fnIn.i.Min <= fnIn.a /\ fnIn.a <= fnIn.i.Max))

\* Eq returned true for the upper bound of a range of more than one value
C13_Witness ==
  /\ fnOut.fn = "Eq"
  /\ fnIn.i.Min < fnIn.i.Max
  /\ fnIn.a = fnIn.i.Max
  /\ fnOut.ret

\* ------------------------------------------------------------------------
\* GetTestCases on files of alloc and bytes directives
\* ------------------------------------------------------------------------

\* alloc=1, alloc=1-2, alloc=2-1
RangeAllocArgs ==
  { << <<"1">>, EmptyStr >>, << <<"1">>, <<"2">> >>, << <<"2">>, <<"1">> >> }

\* bytes=3, bytes=2-1
RangeBytesArgs == { << <<"3">>, EmptyStr >>, << <<"2">>, <<"1">> >> }

\* the comments of the files of SpecRange: the ranges of the ID "a", and a
\* match of the ID "b"
RangeComments ==
  { Comment("alloc", <<"a">>, a[1], a[2]) : a \in RangeAllocArgs }
  \cup { Comment("bytes", <<"a">>, a[1], a[2]) : a \in RangeBytesArgs }
  \cup { Comment("m", <<"b">>, <<"f">>, EmptyStr) }

NextRange ==
  \/ BeginFile
  \/ \E c \in RangeComments : ScanComment(c, EmptyStr)
  \/ EndFile
  \/ Return

SpecRange == Init /\ [][NextRange]_vars

\* C14: every range of a record GetTestCases returns has Min <= Max
C14_StoredRangesAreOrdered ==
  Returned =>
    \A i \in 1..Len(result) :
      /\ result[i].AllocOp.Min <= result[i].AllocOp.Max
      /\ result[i].BytesOp.Min <= result[i].BytesOp.Max

\* the records GetTestCases would return if the scan ended here: those of the
\* files scanned before, then those of the file being scanned
LiveRecords(h, all, inFile) == Elems(h, all) \o Elems(h, inFile)

\* the step scans an alloc or bytes comment and raises no error
RangeStep ==
  /\ Len(scanned') = Len(scanned) + 1
  /\ scanned'[Len(scanned')].c.kind \in {"alloc", "bytes"}
  /\ err' = ""

\* the record tc with the range of the comment c set
WithRange(tc, c) ==
  LET r == ParseRange(ZeroRange, c.arg, c.max).range
  IN  IF c.kind = "alloc" THEN [tc EXCEPT !.AllocOp = r]
                          ELSE [tc EXCEPT !.BytesOp = r]

\* C15: an alloc directive sets AllocOp of the record of its ID to {MIN, MIN}
\* or {MIN, MAX}, a bytes directive does the same to BytesOp; the other
\* fields of the record and every other record stay as they were
C15_RangeDirectiveEffectAndFrame ==
  [][ RangeStep =>
        LET c      == scanned'[Len(scanned')].c
            before == LiveRecords(heap, testCases, testCasesInFile)
            after  == LiveRecords(heap', testCases', testCasesInFile')
            at     == { i \in 1..Len(before) : before[i].ID = c.id }
        IN  IF at = {}
            THEN after = Append(before, WithRange(TestCase(c.id, EmptyStr), c))
            ELSE after = [i \in 1..Len(before) |->
                            IF i \in at THEN WithRange(before[i], c)
                                        ELSE before[i]] ]_vars

\* ------------------------------------------------------------------------
\* The compiled patterns and Regexp.FindString
\* ------------------------------------------------------------------------

RECURSIVE Itoa(_)
\* the %d verb on a line number
Itoa(n) ==
  LET d == <<"0", "1", "2", "3", "4", "5", "6", "7", "8", "9">>[(n % 10) + 1]
  IN  IF n < 10 THEN << d >> ELSE Append(Itoa(n \div 10), d)

IsDigit(c) == c \in DOMAIN DigitVal

\* the text s spliced into a pattern as it stands: "." matches any character,
\* the letters, digits, spaces and ":" of the model match themselves
Spliced(s) ==
  [k \in 1..Len(s) |-> IF s[k] = "." THEN [t |-> "any"]
                                     ELSE [t |-> "lit", c |-> s[k]]]

\* what a pattern matches between ^ and $ of one line:
\*   "(?m)^.*%s:%d:\\d+: %s$" for a match, "(?m)^.*%s:%d:\\d+:.*%s.*$" for
\*   a natch
Tokens(re) ==
  << [t |-> "star"] >> \o Spliced(re.file) \o Spliced(<<":">>)
  \o Spliced(Itoa(re.line)) \o Spliced(<<":">>) \o << [t |-> "digits"] >>
  \o Spliced(<<":">>)
  \o (IF re.kind = "m"
      THEN Spliced(<<" ">>) \o Spliced(re.frag)
      ELSE << [t |-> "star"] >> \o Spliced(re.frag) \o << [t |-> "star"] >>)

RECURSIVE MatchLine(_, _)
\* the tokens match the whole of the line s
MatchLine(toks, s) ==
  IF toks = <<>> THEN s = <<>>
  ELSE LET tk == Head(toks)
       IN  CASE tk.t = "star" ->
                  \/ MatchLine(Tail(toks), s)
                  \/ s # <<>> /\ MatchLine(toks, Tail(s))
             [] tk.t = "digits" ->
                  /\ s # <<>> /\ IsDigit(Head(s))
                  /\ \/ MatchLine(Tail(toks), Tail(s))
                     \/ MatchLine(toks, Tail(s))
             [] tk.t = "any" -> s # <<>> /\ MatchLine(Tail(toks), Tail(s))
             [] OTHER -> /\ s # <<>> /\ Head(s) = tk.c
                         /\ MatchLine(Tail(toks), Tail(s))

\* a text is the sequence of its lines; a pattern is found in it when it
\* matches one of them
Found(re, text) == \E k \in 1..Len(text) : MatchLine(Tokens(re), text[k])

\* re.FindString(text): the first line the pattern matches, "" when none
FindString(re, text) ==
  IF ~Found(re, text) THEN EmptyStr
  ELSE text[CHOOSE k \in 1..Len(text) :
              /\ MatchLine(Tokens(re), text[k])
              /\ \A j \in 1..(k - 1) : ~MatchLine(Tokens(re), text[j])]

\* ------------------------------------------------------------------------
\* Tree.Run
\* ------------------------------------------------------------------------

RECURSIVE InsertAll(_, _)
InsertAll(t, tcs) ==
  IF tcs = <<>> THEN t
  ELSE InsertAll(TreeInsert(t, Head(tcs)), Tail(tcs))

\* NewTree(testCases...)
NewTree(tcs) ==
  InsertAll([nodes |-> << ZeroTreeNode >>, heap |-> <<>>, byID |-> NilMap],
            tcs)

\* a line of the compiler's output: a diagnostic for a position of a file
Diag(prefix, file, line, col, msg) ==
  prefix \o file \o <<":">> \o Itoa(line) \o <<":">> \o Itoa(col)
  \o <<":", " ">> \o msg

\* the matchers of the comments "m=x" on line 1 and "m=y" on line 3 of the
\* first file, and of "m!=x" on line 1 and "m!=z" on line 3
MatchX == LineMatcher("m", fileNames[1], 1, <<"x">>, EmptyStr)

MatchY == LineMatcher("m", fileNames[1], 3, <<"y">>, EmptyStr)

NatchX == LineMatcher("natch", fileNames[1], 1, <<"x">>, EmptyStr)

NatchZ == LineMatcher("natch", fileNames[1], 3, <<"z">>, EmptyStr)

\* the build outputs of the contexts: none; "./f1.go:1:2: x"; that line and
\* "./f1.go:3:10: y"; "f1.go:1:2: xz" and "f1.go:3:1: a z"
BuildOutputs ==
  { <<>>,
    << Diag(<<".", "/">>, fileNames[1], 1, 2, <<"x">>) >>,
    << Diag(<<".", "/">>, fileNames[1], 1, 2, <<"x">>),
       Diag(<<".", "/">>, fileNames[1], 3, 10, <<"y">>) >>,
    << Diag(EmptyStr, fileNames[1], 1, 2, <<"x", "z">>),
       Diag(EmptyStr, fileNames[1], 3, 1, <<"a", " ", "z">>) >> }

\* what testing.Benchmark returns for a benchmark function: the result's
\* AllocsPerOp() and AllocedBytesPerOp()
BenchResults ==
  { [AllocsPerOp |-> a, AllocedBytesPerOp |-> b] : a \in {0, 1, 3},
                                                   b \in {0, 8} }

\* Context.Benchmarks: nil, empty, with a function for the ID "a", and with
\* functions for the IDs "a" and "b"
BenchmarkMaps ==
  { NilMap, EmptyMap }
  \cup { MapPut(EmptyMap, <<"a">>, r) : r \in BenchResults }
  \cup { MapPut(MapPut(EmptyMap, <<"a">>, r), <<"b">>, r) :
           r \in BenchResults }

Contexts ==
  { [Benchmarks |-> b, BuildOutput |-> o] :
      b \in BenchmarkMaps, o \in BuildOutputs }

\* the records the trees are made of
RunCases ==
  { [TestCase(<<"a">>, EmptyStr)
       EXCEPT !.Matches = << MatchX, MatchY >>,
              !.AllocOp = Int64Range(1, 1)],
    [TestCase(<<"a">>, <<"/", "g", "/", "x">>)
       EXCEPT !.Natches = << NatchX >>,
              !.AllocOp = Int64Range(1, 3), !.BytesOp = Int64Range(8, 8)],
    [TestCase(<<"b">>, <<"/", "g", "/", "y">>)
       EXCEPT !.Matches = << MatchX >>, !.Natches = << NatchX, NatchZ >>],
    [TestCase(<<"b">>, EmptyStr)
       EXCEPT !.BytesOp = Int64Range(0, 8)],
    [TestCase(<<"c">>, <<"/", "g", "/", "h", "/", "z">>)
       EXCEPT !.Matches = << MatchY, MatchY >>],
    TestCase(<<"c">>, <<"w">>) }

\* records handed to NewTree
MaxRunTests == 2

RunTrees ==
  { NewTree(tcs) :
      tcs \in UNION { [1..n -> RunCases] : n \in 0..MaxRunTests } }

InitRun ==
  /\ ParserInit /\ EngineInit /\ FnInit
  /\ \E t \in RunTrees :
       /\ nodes = t.nodes
       /\ testHeap = t.heap
       /\ testsByID = t.byID
  /\ calls = <<>>
  /\ lastCall = NoCall

\* getBuildOutputErr(lm, found)
BuildOutputErr(lm, found) ==
  [kind   |-> IF found = EmptyStr THEN "not found" ELSE "was found",
   output |-> found, regexp |-> lm.Regexp, source |-> lm.Source]

\* t.Errorf("exp.alloc=%d, act.alloc=%d", ea, aa), the same for bytes
RangeErr(metric, exp, act) == [kind |-> metric, exp |-> exp, act |-> act]

\* the errors of the loop over tc.Matches
MatchErrors(tc, c) ==
  LET miss(lm) == FindString(lm.Regexp, c.BuildOutput) = EmptyStr
      ms       == SelectSeq(tc.Matches, miss)
  IN  [k \in 1..Len(ms) |-> BuildOutputErr(ms[k], EmptyStr)]

\* a loop over tc.Natches that reports the patterns that are not found
NatchErrors_Inverted(tc, c) ==
  LET miss(lm) == FindString(lm.Regexp, c.BuildOutput) = EmptyStr
      ns       == SelectSeq(tc.Natches, miss)
  IN  [k \in 1..Len(ns) |-> BuildOutputErr(ns[k], EmptyStr)]

\* the errors of the loop over tc.Natches
NatchErrors(tc, c) ==
  LET hit(lm) == FindString(lm.Regexp, c.BuildOutput) # EmptyStr
      ns      == SelectSeq(tc.Natches, hit)
  IN  [k \in 1..Len(ns) |->
         BuildOutputErr(ns[k], FindString(ns[k].Regexp, c.BuildOutput))]

NotRegistered(id) == [log |-> "benchmark function not registered", id |-> id]

\* a comparison that stops at the first metric out of its range
Benchmarked_FirstFailureOnly(tc, c) ==
  LET r == c.Benchmarks.kv[tc.ID]
  IN  [errors |->
         IF ~Eq(tc.AllocOp, r.AllocsPerOp)
         THEN << RangeErr("alloc", tc.AllocOp, r.AllocsPerOp) >>
         ELSE IF ~Eq(tc.BytesOp, r.AllocedBytesPerOp)
         THEN << RangeErr("bytes", tc.BytesOp, r.AllocedBytesPerOp) >>
         ELSE <<>>,
       logs |-> <<>>, benchmarked |-> TRUE]

\* the branch of a registered benchmark function: testing.Benchmark and the
\* two comparisons
Benchmarked(tc, c) ==
  LET r == c.Benchmarks.kv[tc.ID]
  IN  [errors |->
         (IF ~Eq(tc.AllocOp, r.AllocsPerOp)
          THEN << RangeErr("alloc", tc.AllocOp, r.AllocsPerOp) >>
          ELSE <<>>)
         \o (IF ~Eq(tc.BytesOp, r.AllocedBytesPerOp)
             THEN << RangeErr("bytes", tc.BytesOp, r.AllocedBytesPerOp) >>
             ELSE <<>>),
       logs |-> <<>>, benchmarked |-> TRUE]

\* a branch that logs the note whatever the map is
Unregistered_AlwaysLogs(tc, c) ==
  [errors |-> <<>>, logs |-> << NotRegistered(tc.ID) >>,
   benchmarked |-> FALSE]

\* the branch of an ID with no benchmark function
Unregistered(tc, c) ==
  [errors |-> <<>>,
   logs |-> IF ~c.Benchmarks.nil THEN << NotRegistered(tc.ID) >> ELSE <<>>,
   benchmarked |-> FALSE]

\* the function t.Run runs for the record tc
RunTestCase(tc, c) ==
  LET b == IF MapHas(c.Benchmarks, tc.ID) THEN Benchmarked(tc, c)
                                          ELSE Unregistered(tc, c)
  IN  [errors |-> MatchErrors(tc, c) \o NatchErrors(tc, c) \o b.errors,
       logs |-> b.logs, benchmarked |-> b.benchmarked]

Frame(n) == [node |-> n, i |-> 0, j |-> 0]

Top == stack[Len(stack)]

\* Tree.Run(t, ctx) calls run on the root
StartRun(c) ==
  /\ runPc = "idle"
  /\ runPc' = "running"
  /\ ctx' = c
  /\ stack' = << Frame(Root) >>
  /\ UNCHANGED << report, parserVars, treeVars, fnVars >>

\* a loop over tr.Steps that starts at the last child
RunStep_LastFirst ==
  /\ runPc = "running"
  /\ Top.i < Len(nodes[Top.node].Steps)
  /\ LET n     == nodes[Top.node]
         child == n.Nodes[Len(n.Steps) - Top.i]
     IN  /\ stack' = Append([stack EXCEPT ![Len(stack)].i = @ + 1],
                            Frame(child))
         /\ report' = Append(report,
                        [kind |-> "group", node |-> child,
                         name |-> n.Steps[Len(n.Steps) - Top.i]])
  /\ UNCHANGED << runPc, ctx, parserVars, treeVars, fnVars >>

\* the next iteration of the loop over tr.Steps: t.Run(s, ...) calls run on
\* tr.Nodes[i]
RunStep ==
  /\ runPc = "running"
  /\ Top.i < Len(nodes[Top.node].Steps)
  /\ LET n     == nodes[Top.node]
         child == n.Nodes[Top.i + 1]
     IN  /\ stack' = Append([stack EXCEPT ![Len(stack)].i = @ + 1],
                            Frame(child))
         /\ report' = Append(report,
                        [kind |-> "group", node |-> child,
                         name |-> n.Steps[Top.i + 1]])
  /\ UNCHANGED << runPc, ctx, parserVars, treeVars, fnVars >>

\* a loop over tr.Tests that ends at the first record that reports an error
RunTest_StopsOnError ==
  /\ runPc = "running"
  /\ Top.i = Len(nodes[Top.node].Steps)
  /\ Top.j < Len(Leaves(Top.node))
  /\ LET tc == Leaves(Top.node)[Top.j + 1]
         o  == RunTestCase(tc, ctx)
     IN  /\ report' = Append(report,
                        [kind |-> "test", node |-> Top.node,
                         idx |-> Top.j + 1, name |-> tc.Name, tc |-> tc,
                         errors |-> o.errors, logs |-> o.logs,
                         benchmarked |-> o.benchmarked])
         /\ stack' = [stack EXCEPT ![Len(stack)].j =
                        IF o.errors = <<>> THEN @ + 1
                        ELSE Len(Leaves(Top.node))]
  /\ UNCHANGED << runPc, ctx, parserVars, treeVars, fnVars >>

\* the next iteration of the loop over tr.Tests: t.Run(tc.Name, ...) runs the
\* record tr.Tests[i]
RunTest ==
  /\ runPc = "running"
  /\ Top.i = Len(nodes[Top.node].Steps)
  /\ Top.j < Len(Leaves(Top.node))
  /\ LET tc == Leaves(Top.node)[Top.j + 1]
         o  == RunTestCase(tc, ctx)
     IN  /\ report' = Append(report,
                        [kind |-> "test", node |-> Top.node,
                         idx |-> Top.j + 1, name |-> tc.Name, tc |-> tc,
                         errors |-> o.errors, logs |-> o.logs,
                         benchmarked |-> o.benchmarked])
         /\ stack' = [stack EXCEPT ![Len(stack)].j = @ + 1]
  /\ UNCHANGED << runPc, ctx, parserVars, treeVars, fnVars >>

\* run returns: to the t.Run of its parent, or from Tree.Run
RunReturn ==
  /\ runPc = "running"
  /\ Top.i = Len(nodes[Top.node].Steps)
  /\ Top.j = Len(Leaves(Top.node))
  /\ stack' = SubSeq(stack, 1, Len(stack) - 1)
  /\ runPc' = IF Len(stack) = 1 THEN "done" ELSE "running"
  /\ UNCHANGED << ctx, report, parserVars, treeVars, fnVars >>

NextRun ==
  \/ \E c \in Contexts : StartRun(c)
  \/ RunStep
  \/ RunTest
  \/ RunReturn

SpecRun == InitRun /\ [][NextRun]_vars

\* ------------------------------------------------------------------------
\* Claims about Tree.Run
\* ------------------------------------------------------------------------

\* the positions in the report of the records run so far
TestRuns == { k \in 1..Len(report) : report[k].kind = "test" }

ErrorsOfKind(e, kinds) ==
  LET is(x) == x.kind \in kinds IN SelectSeq(e.errors, is)

\* the patterns of the entries of ms at the positions in at, in order
RegexpsAt(ms, at) ==
  LET ks == SortedSeq(at) IN [k \in 1..Len(ks) |-> ms[ks[k]].Regexp]

Regexps(errs) == [k \in 1..Len(errs) |-> errs[k].regexp]

\* C16: the pattern failures reported for a leaf are exactly one failure for
\* each entry of Matches whose pattern is not found in the build output and
\* one for each entry of Natches whose pattern is found; none when every match
\* is found and every natch is absent
C16_PatternFailures ==
  \A k \in TestRuns :
    LET tc     == report[k].tc
        absent == { i \in 1..Len(tc.Matches) :
                      ~Found(tc.Matches[i].Regexp, ctx.BuildOutput) }
        found  == { i \in 1..Len(tc.Natches) :
                      Found(tc.Natches[i].Regexp, ctx.BuildOutput) }
    IN  /\ Regexps(ErrorsOfKind(report[k], {"not found"}))
             = RegexpsAt(tc.Matches, absent)
        /\ Regexps(ErrorsOfKind(report[k], {"was found"}))
             = RegexpsAt(tc.Natches, found)
        /\ (absent = {} /\ found = {}) =>
             ErrorsOfKind(report[k], {"not found", "was found"}) = <<>>

\* a leaf with one match and two natches reported the match as not found and
\* both natches as found
C16_Witness ==
  \E k \in TestRuns :
    /\ Len(report[k].tc.Matches) = 1
    /\ Len(ErrorsOfKind(report[k], {"not found"})) = 1
    /\ Len(ErrorsOfKind(report[k], {"was found"})) = 2

\* C17: with a benchmark function registered for the ID of the leaf, the
\* benchmark is run and there is one allocs failure iff AllocOp does not hold
\* the measured allocs per op, and one bytes failure iff BytesOp does not hold
\* the measured bytes per op, each whatever the other is
C17_RangeFailures ==
  \A k \in TestRuns :
    MapHas(ctx.Benchmarks, report[k].tc.ID) =>
      LET tc == report[k].tc
          r  == ctx.Benchmarks.kv[tc.ID]
      IN  /\ report[k].benchmarked
          /\ ErrorsOfKind(report[k], {"alloc"}) =
               IF Eq(tc.AllocOp, r.AllocsPerOp) THEN <<>>
               ELSE << RangeErr("alloc", tc.AllocOp, r.AllocsPerOp) >>
          /\ ErrorsOfKind(report[k], {"bytes"}) =
               IF Eq(tc.BytesOp, r.AllocedBytesPerOp) THEN <<>>
               ELSE << RangeErr("bytes", tc.BytesOp, r.AllocedBytesPerOp) >>

\* a leaf reported both metrics out of their ranges, and a leaf with both
\* ranges set reported none
C17_Witness ==
  /\ \E k \in TestRuns :
       /\ Len(ErrorsOfKind(report[k], {"alloc"})) = 1
       /\ Len(ErrorsOfKind(report[k], {"bytes"})) = 1
  /\ \E k \in TestRuns :
       /\ report[k].benchmarked
       /\ report[k].tc.AllocOp # ZeroRange
       /\ ErrorsOfKind(report[k], {"alloc", "bytes"}) = <<>>

\* C18: with no benchmark function registered for the ID of the leaf, no
\* benchmark is run and no range failure is reported whatever the ranges are;
\* the note is logged when the map is not nil, and nothing when it is nil
C18_NoBenchmarkNoRangeFailure ==
  \A k \in TestRuns :
    ~MapHas(ctx.Benchmarks, report[k].tc.ID) =>
      /\ ~report[k].benchmarked
      /\ ErrorsOfKind(report[k], {"alloc", "bytes"}) = <<>>
      /\ report[k].logs =
           IF ctx.Benchmarks.nil THEN <<>>
           ELSE << NotRegistered(report[k].tc.ID) >>

\* a leaf with an alloc range ran with no function for its ID in a map that
\* is not nil
C18_Witness ==
  \E k \in TestRuns :
    /\ report[k].tc.AllocOp # ZeroRange
    /\ ~ctx.Benchmarks.nil
    /\ ~MapHas(ctx.Benchmarks, report[k].tc.ID)
    /\ report[k].logs # <<>>

\* C19: for a record whose AllocOp (BytesOp) is the zero range the engine
\* reports no allocs (bytes) failure, whatever the benchmark measured
C19_ZeroRangeIsNotAsserted ==
  \A k \in TestRuns :
    /\ report[k].tc.AllocOp = ZeroRange =>
         ErrorsOfKind(report[k], {"alloc"}) = <<>>
    /\ report[k].tc.BytesOp = ZeroRange =>
         ErrorsOfKind(report[k], {"bytes"}) = <<>>

RunsOf(s) ==
  { k \in TestRuns : report[k].node = s[1] /\ report[k].idx = s[2] }

\* every leaf of the tree was run once, and what its run reported is what the
\* run of that record alone reports under the context
AllLeavesRunOnce ==
  /\ \A k \in TestRuns : << report[k].node, report[k].idx >> \in LeafSlots
  /\ \A s \in LeafSlots :
       /\ Cardinality(RunsOf(s)) = 1
       /\ \A k \in RunsOf(s) :
            LET o == RunTestCase(LeafAt(s), ctx)
            IN  /\ report[k].tc = LeafAt(s)
                /\ report[k].errors = o.errors
                /\ report[k].logs = o.logs

\* the steps run has taken since Tree.Run was called: one for each sub-test
\* started and one for each call of run that has returned
Taken ==
  Len(report) + Cardinality((1..Len(report)) \ TestRuns) + 1 - Len(stack)

\* the steps of a whole run: into and out of every node, and one for each
\* leaf
TotalSteps == 2 * (Len(nodes) - 1) + 1 + Cardinality(LeafSlots)

\* the frame on top of the stack has an iteration or its return left
CanStep ==
  /\ stack # <<>>
  /\ Top.i <= Len(nodes[Top.node].Steps)
  /\ Top.j <= Len(Leaves(Top.node))
  /\ Top.j > 0 => Top.i = Len(nodes[Top.node].Steps)

\* C20: Run terminates: every step of a run is one more of the steps of the
\* tree, a run that has not returned has a step to take, and it returns when
\* all are taken; then every leaf record of the tree was run exactly once,
\* with the failures that leaf has under the context, whatever the other
\* leaves reported
C20_TraversalCompleteAndIndependent ==
  /\ [][runPc = "running" => Taken' = Taken + 1]_vars
  /\ [](runPc = "running" => (CanStep /\ Taken < TotalSteps))
  /\ [](runPc = "done" => (Taken = TotalSteps /\ AllLeavesRunOnce))

\* Run returned after a leaf that reported errors, a later leaf of the same
\* node and a group
C20_Witness ==
  /\ runPc = "done"
  /\ \E k \in TestRuns, l \in TestRuns :
       /\ k < l
       /\ report[k].node = report[l].node
       /\ report[k].errors # <<>>
  /\ \E k \in 1..Len(report) : report[k].kind = "group"

\* ------------------------------------------------------------------------
\* The order of a run
\* ------------------------------------------------------------------------

\* a sub-test: the group of a child node, or a leaf of a node
GroupVisit(child, step) ==
  [kind |-> "group", node |-> child, step |-> step, idx |-> 0]

LeafVisit(n, j) == [kind |-> "test", node |-> n, step |-> EmptyStr, idx |-> j]

RECURSIVE VisitsFrom(_, _)
\* the sub-tests of the node n in depth-first order, from its child i on:
\* each child group with its whole subtree, then the leaves of n
VisitsFrom(n, i) ==
  IF i > Len(nodes[n].Steps)
  THEN [j \in 1..Len(Leaves(n)) |-> LeafVisit(n, j)]
  ELSE << GroupVisit(nodes[n].Nodes[i], nodes[n].Steps[i]) >>
       \o VisitsFrom(nodes[n].Nodes[i], 1) \o VisitsFrom(n, i + 1)

\* the sub-tests started so far, in the order they were started
Visited ==
  [k \in 1..Len(report) |->
     IF report[k].kind = "group"
     THEN GroupVisit(report[k].node, report[k].name)
     ELSE LeafVisit(report[k].node, report[k].idx)]

\* C21: Run visits the tree depth-first: at every node the child groups are
\* entered in Steps order, the whole subtree of a child before the next
\* child, and the leaves of the node are run in Tests order after all of its
\* child groups
C21_DepthFirstOrder ==
  /\ runPc # "idle" => IsPrefix(Visited, VisitsFrom(Root, 1))
  /\ runPc = "done" => Visited = VisitsFrom(Root, 1)

\* Run returned from a tree whose root has two child groups
C21_Witness ==
  /\ runPc = "done"
  /\ Len(nodes[Root].Steps) = 2
  /\ Len(report) = 4

\* ------------------------------------------------------------------------
\* The text of the files: lines, comments and the five directive patterns
\* ------------------------------------------------------------------------

\* the lines a file "lines" holds, split at the newlines: a newline at the
\* end of the file leaves an empty last element
readLines(file) ==
  IF file.newline THEN Append(file.lines, EmptyStr) ELSE file.lines

HasPrefix(s, p) == Len(s) >= Len(p) /\ SubSeq(s, 1, Len(p)) = p

Drop(s, n) == SubSeq(s, n + 1, Len(s))

\* the index of the first occurrence of the character c in s, 0 without one
IndexOf(s, c) ==
  IF \E i \in 1..Len(s) : s[i] = c
  THEN CHOOSE i \in 1..Len(s) : s[i] = c /\ \A j \in 1..(i - 1) : s[j] # c
  ELSE 0

\* the line comment of a line of source: what starts at the first "//" (the
\* lines of the model hold no string literal); empty without one
CommentOf(line) ==
  IF \E i \in 1..(Len(line) - 1) : line[i] = "/" /\ line[i + 1] = "/"
  THEN LET i == CHOOSE k \in 1..(Len(line) - 1) :
                  /\ line[k] = "/" /\ line[k + 1] = "/"
                  /\ \A j \in 1..(k - 1) : ~(line[j] = "/" /\ line[j + 1] = "/")
       IN  Drop(line, i - 1)
  ELSE EmptyStr

HasComment(line) == CommentOf(line) # EmptyStr

\* the line of the first comment of the file after the line "after", and
\* one past the last line when there is none
NextCommentLine(file, after) ==
  LET ls == { l \in (after + 1)..Len(file.lines) : HasComment(file.lines[l]) }
  IN  IF ls = {} THEN Len(file.lines) + 1
      ELSE CHOOSE l \in ls : \A m \in ls : l <= m

\* \d+
Digits1(s) == s # <<>> /\ \A i \in 1..Len(s) : IsDigit(s[i])

\* (\d+)(?:-(\d+))?$
RangeArg(s) ==
  LET d == IndexOf(s, "-")
  IN  IF d = 0
      THEN [ok |-> Digits1(s), min |-> s, max |-> EmptyStr]
      ELSE [ok  |-> Digits1(SubSeq(s, 1, d - 1)) /\ Digits1(Drop(s, d)),
            min |-> SubSeq(s, 1, d - 1),
            max |-> Drop(s, d)]

\* a comment none of the five patterns matches
Ignored(text) == Comment("other", EmptyStr, text, EmptyStr)

DirectivePrefix_NoSpace(text) ==
  IF HasPrefix(text, <<"/", "/", " ", "l", "e", "m", ".">>) THEN 7
  ELSE IF HasPrefix(text, <<"/", "/", "l", "e", "m", ".">>) THEN 6
  ELSE 0

\* ^// lem\. : the length of what it matched at the start of the text, 0
\* when it does not match
DirectivePrefix(text) ==
  IF HasPrefix(text, <<"/", "/", " ", "l", "e", "m", ".">>) THEN 7 ELSE 0

\* the text of a comment matched against nameRx, allocRx, bytesRx, matchRx
\* and natchRx in turn: ([^.]+) is what stands before the first "." after
\* the prefix, and the key and its value follow that "."
ParseComment(text) ==
  LET p    == DirectivePrefix(text)
      rest == Drop(text, p)
      d    == IndexOf(rest, ".")
      id   == SubSeq(rest, 1, d - 1)
      kv   == Drop(rest, d)
      val(key) == Drop(kv, Len(key))
      is(key)  == HasPrefix(kv, key)
  IN  IF p = 0 \/ d < 2 THEN Ignored(text)
      ELSE IF is(<<"n", "a", "m", "e", "=">>) /\ val(<<"n", "a", "m", "e",
          "=">>) # <<>>
      THEN Comment("name", id, val(<<"n", "a", "m", "e", "=">>), EmptyStr)
      ELSE IF is(<<"a", "l", "l", "o", "c", "=">>) /\ RangeArg(val(<<"a",
          "l", "l", "o", "c", "=">>)).ok
      THEN Comment("alloc", id, RangeArg(val(<<"a", "l", "l", "o", "c",
          "=">>)).min,
                   RangeArg(val(<<"a", "l", "l", "o", "c", "=">>)).max)
      ELSE IF is(<<"b", "y", "t", "e", "s", "=">>) /\ RangeArg(val(<<"b",
          "y", "t", "e", "s", "=">>)).ok
      THEN Comment("bytes", id, RangeArg(val(<<"b", "y", "t", "e", "s",
          "=">>)).min,
                   RangeArg(val(<<"b", "y", "t", "e", "s", "=">>)).max)
      ELSE IF is(<<"m", "=">>) /\ val(<<"m", "=">>) # <<>>
      THEN Comment("m", id, val(<<"m", "=">>), EmptyStr)
      ELSE IF is(<<"m", "!", "=">>) /\ val(<<"m", "!", "=">>) # <<>>
      THEN Comment("natch", id, val(<<"m", "!", "=">>), EmptyStr)
      ELSE Ignored(text)

\* ------------------------------------------------------------------------
\* GetTestCases over files given by their text
\* ------------------------------------------------------------------------

MaxLines == 2

\* the lines of the files: a match, a natch behind a statement, a name, a
\* match of a second ID, an alloc whose number does not fit an int64, a
\* match whose fragment does not compile, two comments that are no
\* directive (a range that is no number, a missing space), and a statement
TextLines ==
  { <<"/", "/", " ", "l", "e", "m", ".", "a", ".", "m", "=", "f">>,
    <<"x", " ", "/", "/", " ", "l", "e", "m", ".", "a", ".", "m", "!", "=",
        "f">>,
    <<"/", "/", " ", "l", "e", "m", ".", "a", ".", "n", "a", "m", "e", "=",
        "x">>,
    <<"/", "/", " ", "l", "e", "m", ".", "b", ".", "m", "=", "f">>,
    <<"/", "/", " ", "l", "e", "m", ".", "a", ".", "a", "l", "l", "o", "c",
        "=", "1", "0", "0", "0", "0", "0", "0", "0", "0", "0", "0", "0", "0",
        "0", "0", "0", "0", "0", "0", "0">>,
    <<"/", "/", " ", "l", "e", "m", ".", "a", ".", "m", "=", "(">>,
    <<"/", "/", " ", "l", "e", "m", ".", "a", ".", "a", "l", "l", "o", "c",
        "=", "x">>,
    <<"/", "/", "l", "e", "m", ".", "a", ".", "m", "=", "f">>,
    <<"x">> }

TextFile(lines, newline) ==
  [bad |-> FALSE, lines |-> lines, newline |-> newline]

\* a file parser.ParseFile or os.ReadFile fails on
BadFile == [bad |-> TRUE, lines |-> <<>>, newline |-> FALSE]

TextFiles ==
  { TextFile(ls, nl) :
      ls \in UNION { [1..n -> TextLines] : n \in 1..MaxLines },
      nl \in BOOLEAN }
  \cup { BadFile }

\* the files handed to GetTestCases after the first one
LaterFiles ==
  { <<>>,
    << TextFile(<< <<"/", "/", " ", "l", "e", "m", ".", "b", ".", "m", "=",
        "f">> >>, TRUE) >>,
    << TextFile(<< <<"/", "/", " ", "l", "e", "m", ".", "a", ".", "n", "a",
        "m", "e", "=", "y">> >>, TRUE) >>,
    << BadFile >> }

InitText ==
  /\ ParserInit
  /\ TreeInit
  /\ EngineInit
  /\ fnIn \in { [fn |-> "GetTestCases", files |-> << f >> \o later] :
                  f \in TextFiles, later \in LaterFiles }
  /\ fnOut = NotCalled

\* the file getTestCasesInFile is scanning
File == fnIn.files[fileNo]

\* the loop of GetTestCases enters getTestCasesInFile for the next file, which
\* parses the file, reads its lines and comes to its first comment
BeginText ==
  /\ pc = "loop"
  /\ fileNo < Len(fnIn.files)
  /\ ~fnIn.files[fileNo + 1].bad
  /\ pc' = "scan"
  /\ fileNo' = fileNo + 1
  /\ lineNo' = NextCommentLine(fnIn.files[fileNo + 1], 0)
  /\ testCasesInFile' = NilSlice
  /\ UNCHANGED << heap, testCases, lookupTbl, result, err, scanned,
                  treeVars, engineVars, fnVars >>

\* parser.ParseFile or os.ReadFile fails on the next file
TextError ==
  /\ fileNo < Len(fnIn.files)
  /\ fnIn.files[fileNo + 1].bad
  /\ FileError

\* one iteration of the loop over the comments of the file, for the comment
\* on line lineNo: a match or natch whose pattern compiled reads
\* lines[lineNo], which panics with an index out of range past the last
\* element of lines
ScanText ==
  /\ pc = "scan"
  /\ lineNo <= Len(File.lines)
  /\ LET text   == CommentOf(File.lines[lineNo])
         c      == ParseComment(text)
         lines  == readLines(File)
         reads  == c.kind \in {"m", "natch"} /\ Compiles(c.arg)
         source == IF lineNo + 1 <= Len(lines) THEN lines[lineNo + 1]
                   ELSE EmptyStr
         e      == ScanEffect(heap, testCasesInFile, lookupTbl, c,
                              fileNames[fileNo], lineNo, source)
     IN  /\ scanned' = Append(scanned,
                         [file |-> fileNo, line |-> lineNo, c |-> c,
                          text |-> text])
         /\ IF reads /\ lineNo + 1 > Len(lines)
            THEN /\ pc' = "panic"
                 /\ UNCHANGED << heap, testCasesInFile, lookupTbl, result,
                                 err, lineNo >>
            ELSE /\ heap' = e.heap
                 /\ testCasesInFile' = e.slice
                 /\ lookupTbl' = e.tbl
                 /\ IF e.err # ""
                    THEN /\ pc' = "done"
                         /\ result' = <<>>
                         /\ err' = e.err
                         /\ UNCHANGED lineNo
                    ELSE /\ lineNo' = NextCommentLine(File, lineNo)
                         /\ UNCHANGED << pc, result, err >>
  /\ UNCHANGED << testCases, fileNo, treeVars, engineVars, fnVars >>

\* the file has no comment left: getTestCasesInFile returns its slice
EndText ==
  /\ pc = "scan"
  /\ lineNo > Len(File.lines)
  /\ EndFile

\* GetTestCases has no file left and returns testCases
ReturnText ==
  /\ fileNo = Len(fnIn.files)
  /\ Return

NextText ==
  \/ BeginText
  \/ TextError
  \/ ScanText
  \/ EndText
  \/ ReturnText

SpecText == InitText /\ [][NextText]_vars

\* ------------------------------------------------------------------------
\* Claims about GetTestCases over the text of the files
\* ------------------------------------------------------------------------

\* the comments of TextLines with a number that does not fit an int64 or a
\* fragment that does not compile
FatalTexts ==
  { <<"/", "/", " ", "l", "e", "m", ".", "a", ".", "a", "l", "l", "o", "c",
      "=", "1", "0", "0", "0", "0", "0", "0", "0", "0", "0", "0", "0", "0",
      "0", "0", "0", "0", "0", "0", "0">>, <<"/", "/", " ", "l", "e", "m",
      ".", "a", ".", "m", "=", "(">> }

\* C22: a fatal error ends GetTestCases with the error and no records,
\* whatever was collected before: the error is returned with an empty result,
\* a file that cannot be read or parsed and a comment with an overflowing
\* number or a fragment that does not compile raise it, and nothing is scanned
\* after it
C22_FatalErrorsReturnNothing ==
  /\ [](err # "" => pc = "done" /\ result = <<>>)
  /\ [](\A k \in 1..Len(scanned) :
          scanned[k].text \in FatalTexts => k = Len(scanned) /\ err # "")
  /\ [](fileNo >= 1 /\ fnIn.files[fileNo].bad => err = "file error")
  /\ [][err = ""]_vars

\* an overflowing number ends the scan of the first of two files after a
\* record of that file was collected
C22_Witness ==
  /\ err = "value out of range"
  /\ Len(scanned) = 2
  /\ fileNo = 1
  /\ Len(fnIn.files) = 2
  /\ Elems(heap, testCasesInFile) # <<>>

\* the matchers of all records ever written
Matchers ==
  UNION { UNION { { heap[a][i].Matches[j] :
                      j \in 1..Len(heap[a][i].Matches) }
                  \cup { heap[a][i].Natches[j] :
                           j \in 1..Len(heap[a][i].Natches) } :
                  i \in DOMAIN heap[a] } :
          a \in DOMAIN heap }

\* C23: the Source of every matcher is the text of the line its comment is
\* on, the line whose number is in the pattern, wherever the comment is
C23_SourceIsTheCommentLine ==
  /\ pc # "panic"
  /\ \A k \in 1..Len(scanned) :
       scanned[k].c.kind \in {"m", "natch"} /\ (k < Len(scanned) \/ err = "")
         => \E m \in Matchers :
              /\ m.Regexp.file = fileNames[scanned[k].file]
              /\ m.Regexp.line = scanned[k].line
              /\ m.Source = fnIn.files[scanned[k].file].lines[scanned[k].line]

\* the comments of TextLines that none of the five patterns matches
IgnoredTexts == { <<"/", "/", " ", "l", "e", "m", ".", "a", ".", "a", "l",
    "l", "o", "c", "=", "x">>, <<"/", "/", "l", "e", "m", ".", "a", ".", "m",
    "=", "f">> }

\* the step scans a comment that none of the five patterns matches
IgnoredStep ==
  /\ Len(scanned') = Len(scanned) + 1
  /\ scanned'[Len(scanned')].text \in IgnoredTexts

\* C26: scanning a comment that is no directive raises no error, creates no
\* record and leaves the lookup table and every record as they were
C26_UnrecognizedCommentIsIgnored ==
  [][IgnoredStep =>
       /\ err' = "" /\ pc' = "scan" /\ result' = result
       /\ heap' = heap
       /\ testCasesInFile' = testCasesInFile
       /\ testCases' = testCases
       /\ lookupTbl' = lookupTbl]_vars

\* a comment that is no directive was scanned after a record was collected
C26_Witness ==
  /\ Len(scanned) = 2
  /\ scanned[2].text \in IgnoredTexts
  /\ Elems(heap, testCasesInFile) # <<>>
  /\ err = ""

\* ------------------------------------------------------------------------
\* The patterns of the matchers against the compiler's output
\* ------------------------------------------------------------------------

\* a diagnostic of the compiler: the directory and base name of the file, the
\* line, the column and the message
Diagnostic(dir, file, line, col, msg) ==
  [dir |-> dir, file |-> file, line |-> line, col |-> col, msg |-> msg]

\* the line of the build output for a diagnostic
DiagLine(d) == Diag(d.dir, d.file, d.line, d.col, d.msg)

\* diagnostics for the first file (lines 1, 3 and 11, messages "x", "y",
\* "xz" and "a x"), for the second file, for files named zf1.go and f1xgo,
\* and one for the second file whose message quotes a position of the first
DiagLines ==
  { Diagnostic(<<".", "/">>, fileNames[1], 1, 2, <<"x">>),
    Diagnostic(EmptyStr, fileNames[1], 1, 10, <<"x">>),
    Diagnostic(EmptyStr, fileNames[1], 3, 2, <<"x">>),
    Diagnostic(EmptyStr, fileNames[1], 11, 2, <<"x">>),
    Diagnostic(EmptyStr, fileNames[2], 1, 2, <<"x">>),
    Diagnostic(EmptyStr, fileNames[1], 1, 2, <<"x", "z">>),
    Diagnostic(EmptyStr, fileNames[1], 1, 2, <<"a", " ", "x">>),
    Diagnostic(EmptyStr, fileNames[1], 1, 2, <<"y">>),
    Diagnostic(EmptyStr, fileNames[1], 3, 2, <<"y">>),
    Diagnostic(EmptyStr, <<"z", "f", "1", ".", "g", "o">>, 1, 2, <<"x">>),
    Diagnostic(EmptyStr, <<"f", "1", "x", "g", "o">>, 1, 2, <<"x">>),
    Diagnostic(EmptyStr, fileNames[2], 3, 2, <<"f", "1", ".", "g", "o", ":",
        "1", ":", "2", ":", " ", "x">>) }

\* diagnostics in a build output
MaxDiagLines == 2

\* the patterns of the comments "m=x" and "m!=x" on lines 1 and 3 of the
\* first file
LinePatterns ==
  { LineMatcher(kind, fileNames[1], line, <<"x">>, EmptyStr).Regexp :
      kind \in {"m", "natch"}, line \in {1, 3} }

InitMatch ==
  /\ ParserInit /\ TreeInit /\ EngineInit
  /\ fnIn \in { [fn |-> "FindString", re |-> re, diags |-> ds] :
                  re \in LinePatterns,
                  ds \in UNION { [1..n -> DiagLines] : n \in 0..MaxDiagLines } }
  /\ fnOut = NotCalled

\* lm.Regexp.FindString(ctx.BuildOutput)
CallFindString ==
  /\ fnIn.fn = "FindString"
  /\ fnOut = NotCalled
  /\ fnOut' = [fn  |-> "FindString",
               ret |-> FindString(fnIn.re,
                         [k \in 1..Len(fnIn.diags) |->
                            DiagLine(fnIn.diags[k])])]
  /\ UNCHANGED << parserVars, treeVars, engineVars, fnIn >>

NextMatch == CallFindString

SpecMatch == InitMatch /\ [][NextMatch]_vars

\* s occurs in t
Contains(t, s) ==
  \E i \in 0..(Len(t) - Len(s)) : SubSeq(t, i + 1, i + Len(s)) = s

\* C24: a match pattern of line L of file F with the fragment X is found in
\* a build output iff one of its diagnostics is for file F and line L and has
\* the message X
C24_MatchIffDiagnosticOfLineWithMessage ==
  fnOut.fn = "FindString" /\ fnIn.re.kind = "m" =>
    (fnOut.ret # EmptyStr
       <=> \E k \in 1..Len(fnIn.diags) :
             /\ fnIn.diags[k].file = fnIn.re.file
             /\ fnIn.diags[k].line = fnIn.re.line
             /\ fnIn.diags[k].msg = fnIn.re.frag)

\* C25: a natch pattern of line L of file F with the fragment X is found in
\* a build output iff one of its diagnostics is for file F and line L and X
\* occurs in what follows the column
C25_NatchIffDiagnosticOfLineContains ==
  fnOut.fn = "FindString" /\ fnIn.re.kind = "natch" =>
    (fnOut.ret # EmptyStr
       <=> \E k \in 1..Len(fnIn.diags) :
             /\ fnIn.diags[k].file = fnIn.re.file
             /\ fnIn.diags[k].line = fnIn.re.line
             /\ Contains(fnIn.diags[k].msg, fnIn.re.frag))

\* ------------------------------------------------------------------------
\* Tree.DeepEqual
\* ------------------------------------------------------------------------

\* a nil *regexp.Regexp
NilRegexp == [kind |-> "nil", file |-> EmptyStr, line |-> 0,
    frag |-> EmptyStr]

\* re.String(): the text the pattern was compiled from
RegexpString(re) ==
  <<"(", "?", "m", ")", "^", ".",
      "*">> \o re.file \o <<":">> \o Itoa(re.line) \o <<":", "\\", "d", "+",
      ":">>
  \o (IF re.kind = "m" THEN <<" ">> \o re.frag \o <<"$">>
      ELSE <<".", "*">> \o re.frag \o <<".", "*", "$">>)

\* a comparison of matchers that does not look at Source
LineMatcherDeepEqual_IgnoresSource(lm, b) ==
  LET ar == lm.Regexp
      br == b.Regexp
  IN  IF ar = NilRegexp /\ br # NilRegexp THEN FALSE
      ELSE IF ar # NilRegexp /\ br = NilRegexp THEN FALSE
      ELSE IF /\ ar # NilRegexp /\ br # NilRegexp
              /\ RegexpString(ar) # RegexpString(br) THEN FALSE
      ELSE TRUE

\* LineMatcher.deepEqual
LineMatcherDeepEqual(lm, b) ==
  LET ar == lm.Regexp
      br == b.Regexp
  IN  IF lm.Source # b.Source THEN FALSE
      ELSE IF ar = NilRegexp /\ br # NilRegexp THEN FALSE
      ELSE IF ar # NilRegexp /\ br = NilRegexp THEN FALSE
      ELSE IF /\ ar # NilRegexp /\ br # NilRegexp
              /\ RegexpString(ar) # RegexpString(br) THEN FALSE
      ELSE TRUE

\* Int64Range.deepEqual
Int64RangeDeepEqual(i, b) == i.Min = b.Min /\ i.Max = b.Max

\* TestCase.deepEqual
TestCaseDeepEqual(tc, b) ==
  IF tc.ID # b.ID THEN FALSE
  ELSE IF tc.Name # b.Name THEN FALSE
  ELSE IF ~Int64RangeDeepEqual(tc.AllocOp, b.AllocOp) THEN FALSE
  ELSE IF ~Int64RangeDeepEqual(tc.BytesOp, b.BytesOp) THEN FALSE
  ELSE IF Len(tc.Matches) # Len(b.Matches) THEN FALSE
  ELSE IF \E i \in 1..Len(tc.Matches) :
            ~LineMatcherDeepEqual(tc.Matches[i], b.Matches[i]) THEN FALSE
  ELSE IF Len(tc.Natches) # Len(b.Natches) THEN FALSE
  ELSE IF \E i \in 1..Len(tc.Natches) :
            ~LineMatcherDeepEqual(tc.Natches[i], b.Natches[i]) THEN FALSE
  ELSE TRUE

RECURSIVE TreeNodeDeepEqual(_, _, _, _)
\* TreeNode.deepEqual on the node n of the tree ta and the node m of the
\* tree tb
TreeNodeDeepEqual(ta, n, tb, m) ==
  LET tr     == ta.nodes[n]
      b      == tb.nodes[m]
      trTests == Elems(ta.heap, tr.Tests)
      bTests  == Elems(tb.heap, b.Tests)
  IN  IF Cardinality(DOMAIN tr.Index.kv) # Cardinality(DOMAIN b.Index.kv)
      THEN FALSE
      ELSE IF \E ak \in DOMAIN tr.Index.kv :
                \/ ~MapHas(b.Index, ak)
                \/ tr.Index.kv[ak] # b.Index.kv[ak]
      THEN FALSE
      ELSE IF Len(tr.Steps) # Len(b.Steps) THEN FALSE
      ELSE IF \E i \in 1..Len(tr.Steps) : tr.Steps[i] # b.Steps[i] THEN FALSE
      ELSE IF Len(trTests) # Len(bTests) THEN FALSE
      ELSE IF \E i \in 1..Len(trTests) :
                ~TestCaseDeepEqual(trTests[i], bTests[i]) THEN FALSE
      ELSE IF Len(tr.Nodes) # Len(b.Nodes) THEN FALSE
      ELSE \A i \in 1..Len(tr.Nodes) :
             TreeNodeDeepEqual(ta, tr.Nodes[i], tb, b.Nodes[i])

\* Tree.DeepEqual
DeepEqual(tr, b) == TreeNodeDeepEqual(tr, Root, b, Root)

\* a Tree value: its nodes, the backing arrays of their Tests, and testsByID
Tree(t) == [nodes |-> t.nodes, heap |-> t.heap, byID |-> t.byID]

\* the tree written as a composite literal: no testsByID and no Once done
TreeLiteral(t) ==
  [nodes |-> [n \in 1..Len(t.nodes) |-> [t.nodes[n] EXCEPT !.Once = FALSE]],
   heap  |-> t.heap,
   byID  |-> NilMap]

\* the tree written as a composite literal with an empty map for every nil
\* Index
TreeLiteralEmptyIndex(t) ==
  [nodes |-> [n \in 1..Len(t.nodes) |->
                [t.nodes[n] EXCEPT
                   !.Once = FALSE,
                   !.Index = IF @.nil THEN EmptyMap ELSE @]],
   heap  |-> t.heap,
   byID  |-> NilMap]

\* records that differ from the first in Source, in a nil Regexp, in the
\* slice the matcher is in, in the name and a range, and in the ID and the
\* pattern; a record with only a range, and one with two matchers a level
\* further down
DeepCases ==
  << [TestCase(<<"a">>, <<"/", "g", "/",
      "x">>) EXCEPT !.Matches = << MatchX >>],
     [TestCase(<<"a">>, <<"/", "g", "/", "x">>)
        EXCEPT !.Matches = << [MatchX EXCEPT !.Source = <<"s">>] >>],
     [TestCase(<<"a">>, <<"/", "g", "/", "x">>)
        EXCEPT !.Matches = << [MatchX EXCEPT !.Regexp = NilRegexp] >>],
     [TestCase(<<"a">>, <<"/", "g", "/", "y">>)
        EXCEPT !.Matches = << MatchX >>, !.AllocOp = Int64Range(1, 1)],
     [TestCase(<<"b">>, <<"/", "g", "/",
         "x">>) EXCEPT !.Matches = << MatchY >>],
     [TestCase(<<"a">>, <<"/", "g", "/",
         "x">>) EXCEPT !.Natches = << NatchX >>],
     [TestCase(<<"b">>, EmptyStr) EXCEPT !.BytesOp = Int64Range(0, 8)],
     [TestCase(<<"c">>, <<"/", "g", "/", "h", "/", "z">>)
        EXCEPT !.Matches = << MatchY, MatchX >>] >>

\* records handed to NewTree for the receiver of DeepEqual
MaxDeepTests == 2

\* the receivers: the trees of up to MaxDeepTests records
DeepTrees ==
  { Tree(NewTree([i \in DOMAIN ks |-> DeepCases[ks[i]]])) :
      ks \in UNION { [1..n -> 1..Len(DeepCases)] : n \in 0..MaxDeepTests } }

\* the arguments: the trees of up to two of the first five records
DeepArgs ==
  { Tree(NewTree([i \in DOMAIN ks |-> DeepCases[ks[i]]])) :
      ks \in UNION { [1..n -> 1..5] : n \in 0..2 } }

\* the pairs compared: a receiver with an argument, and a tree with itself
\* written as a literal, either way round
DeepPairs ==
  { << a, b >> : a \in DeepTrees, b \in DeepArgs }
  \cup { << a, TreeLiteral(a) >> : a \in DeepTrees }
  \cup { << TreeLiteral(a), a >> : a \in DeepTrees }
  \cup { << a, TreeLiteralEmptyIndex(a) >> : a \in DeepTrees }
  \cup { << TreeLiteralEmptyIndex(a), a >> : a \in DeepTrees }

InitDeep ==
  /\ ParserInit /\ TreeInit /\ EngineInit
  /\ fnIn \in { [fn |-> "DeepEqual", tr |-> p[1], b |-> p[2]] :
                  p \in DeepPairs }
  /\ fnOut = NotCalled

CallDeepEqual ==
  /\ fnIn.fn = "DeepEqual"
  /\ fnOut = NotCalled
  /\ fnOut' = [fn |-> "DeepEqual", ret |-> DeepEqual(fnIn.tr, fnIn.b)]
  /\ UNCHANGED << parserVars, treeVars, engineVars, fnIn >>

NextDeep == CallDeepEqual

SpecDeep == InitDeep /\ [][NextDeep]_vars

\* what DeepEqual is to compare of a matcher: whether it has a pattern, the
\* text of the pattern, and Source
MatcherValue(lm) ==
  [nil    |-> lm.Regexp = NilRegexp,
   text   |-> IF lm.Regexp = NilRegexp THEN EmptyStr
              ELSE RegexpString(lm.Regexp),
   Source |-> lm.Source]

TestValue(tc) ==
  [tc EXCEPT !.Matches = [j \in 1..Len(@) |-> MatcherValue(@[j])],
             !.Natches = [j \in 1..Len(@) |-> MatcherValue(@[j])]]

RECURSIVE NodeValue(_, _)
\* what DeepEqual is to compare of the node n of the tree t: the pairs of
\* Index, Steps, the values of Tests and the values of Nodes
NodeValue(t, n) ==
  LET tests == Elems(t.heap, t.nodes[n].Tests)
  IN  [Index |-> { << k, t.nodes[n].Index.kv[k] >> :
                     k \in DOMAIN t.nodes[n].Index.kv },
       Steps |-> t.nodes[n].Steps,
       Tests |-> [i \in 1..Len(tests) |-> TestValue(tests[i])],
       Nodes |-> [i \in 1..Len(t.nodes[n].Nodes) |->
                    NodeValue(t, t.nodes[n].Nodes[i])]]

\* C27: DeepEqual is true iff the two trees have, node by node, the same
\* pairs in Index, the same Steps, Tests equal in every field with the text
\* of the patterns and Source, and equal Nodes; a tree equals itself, and
\* testsByID is not compared
C27_DeepEqualIsStructuralEquality ==
  fnOut.fn = "DeepEqual" =>
    /\ fnOut.ret <=> NodeValue(fnIn.tr, Root) = NodeValue(fnIn.b, Root)
    /\ fnIn.tr = fnIn.b => fnOut.ret
    /\ fnIn.b = [fnIn.tr EXCEPT !.byID = fnIn.b.byID] => fnOut.ret

\* two trees with nodes below the root that differ in testsByID only are
\* equal
C27_Witness ==
  /\ fnOut.fn = "DeepEqual"
  /\ fnOut.ret
  /\ Len(fnIn.tr.nodes) > 1
  /\ fnIn.tr.byID # fnIn.b.byID

\* ------------------------------------------------------------------------
\* Context.Copy and NewBuildContext
\* ------------------------------------------------------------------------

\* a []string or []build.Package: nil, or its elements
NilSeq == [nil |-> TRUE, elems |-> <<>>]

SliceOf(elems) == [nil |-> FALSE, elems |-> elems]

\* a *build.Context: nil, or the build.Context it points to
NilBuildContext == [nil |-> TRUE]

PtrTo(bc) == [nil |-> FALSE, val |-> bc]

StringSlices == { NilSeq, SliceOf(<<>>), SliceOf(<< <<"t">>, <<"u">> >>) }

\* the values of build.Context of the model; a hook is nil or a function
GoBuildContexts ==
  { [GOARCH |-> <<"a">>, GOOS |-> <<"o">>, GOROOT |-> root, GOPATH |-> path,
     Dir |-> <<"d">>, CgoEnabled |-> cgo, UseAllFiles |-> FALSE,
     Compiler |-> <<"g", "c">>, BuildTags |-> tags, ToolTags |-> NilSeq,
     ReleaseTags |-> SliceOf(<< <<"g", "o", "1">> >>),
         InstallSuffix |-> EmptyStr,
     JoinPath |-> hook, SplitPathList |-> "nil", IsAbsPath |-> "nil",
     IsDir |-> "nil", HasSubdir |-> "nil", ReadDir |-> "nil",
     OpenFile |-> "nil"] :
      root \in { <<"r">>, <<"s">> }, path \in { <<"r">>, <<"p">> },
          cgo \in BOOLEAN,
      tags \in StringSlices, hook \in {"nil", "JoinPath"} }

\* the values of lem.Context of the model
LemContexts ==
  { [Benchmarks |-> bm, BuildContext |-> bc, BuildOutput |-> out,
     CompilerFlags |-> cf, ImportedPackages |-> ip, Packages |-> pk] :
      bm \in { NilMap, EmptyMap, MapPut(EmptyMap, <<"a">>, "BenchmarkA") },
      bc \in { NilBuildContext } \cup { PtrTo(c) : c \in GoBuildContexts },
      out \in { EmptyStr, <<"x">> },
      cf \in StringSlices,
      ip \in { NilSeq, SliceOf(<< [ImportPath |-> <<"p">>] >>) },
      pk \in { NilSeq, SliceOf(<< <<".">> >>) } }

copyNillableStringSlice(src) ==
  IF src.nil THEN NilSeq
  ELSE IF Len(src.elems) = 0 THEN SliceOf(<<>>)
  ELSE SliceOf([i \in 1..Len(src.elems) |-> src.elems[i]])

copyNillableImportedPackageSlice(src) ==
  IF src.nil THEN NilSeq
  ELSE IF Len(src.elems) = 0 THEN SliceOf(<<>>)
  ELSE SliceOf([i \in 1..Len(src.elems) |-> src.elems[i]])

copyNillableBenchmarksMap(src) ==
  IF src.nil THEN NilMap
  ELSE [nil |-> FALSE, kv |-> [k \in DOMAIN src.kv |-> src.kv[k]]]

copyGoBuildContext(src) ==
  [GOARCH        |-> src.GOARCH,
   GOOS          |-> src.GOOS,
   GOROOT        |-> src.GOROOT,
   GOPATH        |-> src.GOROOT,
   Dir           |-> src.Dir,
   CgoEnabled    |-> src.CgoEnabled,
   UseAllFiles   |-> src.UseAllFiles,
   Compiler      |-> src.Compiler,
   BuildTags     |-> copyNillableStringSlice(src.BuildTags),
   ToolTags      |-> copyNillableStringSlice(src.ToolTags),
   ReleaseTags   |-> copyNillableStringSlice(src.ReleaseTags),
   InstallSuffix |-> src.InstallSuffix,
   JoinPath      |-> src.JoinPath,
   SplitPathList |-> src.SplitPathList,
   IsAbsPath     |-> src.IsAbsPath,
   IsDir         |-> src.IsDir,
   HasSubdir     |-> src.HasSubdir,
   ReadDir       |-> src.ReadDir,
   OpenFile      |-> src.OpenFile]

copyNillableGoBuildContext(src) ==
  IF src.nil THEN NilBuildContext ELSE PtrTo(copyGoBuildContext(src.val))

\* Context.Copy
Copy(src) ==
  [Benchmarks       |-> copyNillableBenchmarksMap(src.Benchmarks),
   BuildContext     |-> copyNillableGoBuildContext(src.BuildContext),
   BuildOutput      |-> src.BuildOutput,
   CompilerFlags    |-> copyNillableStringSlice(src.CompilerFlags),
   ImportedPackages |->
     copyNillableImportedPackageSlice(src.ImportedPackages),
   Packages         |-> copyNillableStringSlice(src.Packages)]

\* NewBuildContext(), build.Default being def
NewBuildContext(def) == copyGoBuildContext(def)

InitCopy ==
  /\ ParserInit /\ TreeInit /\ EngineInit
  /\ fnIn \in { [fn |-> "Copy", src |-> c] : c \in LemContexts }
              \cup { [fn |-> "NewBuildContext", src |-> c] :
                       c \in GoBuildContexts }
  /\ fnOut = NotCalled

CallCopy ==
  /\ fnIn.fn = "Copy"
  /\ fnOut = NotCalled
  /\ fnOut' = [fn |-> "Copy", ret |-> Copy(fnIn.src)]
  /\ UNCHANGED << parserVars, treeVars, engineVars, fnIn >>

CallNewBuildContext ==
  /\ fnIn.fn = "NewBuildContext"
  /\ fnOut = NotCalled
  /\ fnOut' = [fn |-> "NewBuildContext", ret |-> NewBuildContext(fnIn.src)]
  /\ UNCHANGED << parserVars, treeVars, engineVars, fnIn >>

NextCopy ==
  \/ CallCopy
  \/ CallNewBuildContext

SpecCopy == InitCopy /\ [][NextCopy]_vars

\* C28: every field of the Context Copy returns, and of the build context in
\* it, equals the same field of the source, and every field of what
\* NewBuildContext returns equals the same field of build.Default
C28_CopiesAreFaithful ==
  fnOut.fn \in {"Copy", "NewBuildContext"} => fnOut.ret = fnIn.src

\* ------------------------------------------------------------------------
\* Build and run
\* ------------------------------------------------------------------------

\* a build.Package and what the go tool does with it: whether it has Go
\* files and test files, whether its tests import it, and whether building
\* its test binary or the package fails
Package(path, go, test, self, testFails, buildFails) ==
  [ImportPath |-> path, GoFiles |-> go, TestGoFiles |-> test,
   TestImportsSelf |-> self, testFails |-> testFails,
   buildFails |-> buildFails]

\* packages with Go files only, with tests that import the package, with
\* tests that do not, without any file, and two whose build fails
Packages ==
  { Package(<<"p">>, TRUE, FALSE, FALSE, FALSE, FALSE),
    Package(<<"q">>, TRUE, TRUE, TRUE, FALSE, FALSE),
    Package(<<"r">>, TRUE, TRUE, FALSE, FALSE, FALSE),
    Package(<<"e">>, FALSE, FALSE, FALSE, FALSE, FALSE),
    Package(<<"k">>, TRUE, FALSE, FALSE, FALSE, TRUE),
    Package(<<"t">>, TRUE, TRUE, FALSE, TRUE, FALSE) }

\* what the go tool writes to standard error for a command on a package
Stderr(cmd, pkg) ==
  << pkg.ImportPath \o (IF cmd = "test" THEN <<"_", "t", "e", "s",
      "t">> ELSE EmptyStr)
     \o <<".", "g", "o", ":", "1", ":", "2", ":", " ", "x">> >>

RECURSIVE Join(_, _)
\* strings.Join(elems, sep)
Join(elems, sep) ==
  IF elems = <<>> THEN EmptyStr
  ELSE IF Len(elems) = 1 THEN elems[1]
  ELSE elems[1] \o sep \o Join(Tail(elems), sep)

\* a flag list that keeps every flag of the caller
compilerFlags_KeepsAll(flags) == << <<"-", "m">> >> \o flags

\* the compiler flags of Build: "-m", then the flags of the context that
\* are not "-m"
compilerFlags(flags) ==
  << <<"-", "m">> >> \o SelectSeq(flags, LAMBDA f : f # <<"-", "m">>)

\* forkGo for a command on a package: the arguments, the flag list the
\* -gcflags value was joined from, and the text written to w
Fork(cmd, pkg, flags) ==
  [cmd     |-> cmd,
   flags   |-> compilerFlags(flags),
   gcflags |-> Join(compilerFlags(flags), <<" ">>),
   pkg     |-> pkg.ImportPath]

\* internal.Build(w, pkg, ctx): the commands forked, the text written to w,
\* and whether an error is returned
Build(pkg, flags) ==
  IF ~pkg.GoFiles /\ ~pkg.TestGoFiles
  THEN [forks |-> <<>>, out |-> <<>>, err |-> FALSE]
  ELSE LET test  == Fork("test", pkg, flags)
           build == Fork("build", pkg, flags)
           did   == pkg.TestGoFiles /\ pkg.TestImportsSelf
           tests == IF pkg.TestGoFiles
                    THEN [forks |-> << test >>, out |-> Stderr("test", pkg)]
                    ELSE [forks |-> <<>>, out |-> <<>>]
       IN  IF pkg.TestGoFiles /\ pkg.testFails
           THEN [forks |-> tests.forks, out |-> tests.out, err |-> TRUE]
           ELSE IF pkg.GoFiles /\ ~did
           THEN [forks |-> Append(tests.forks, build),
                 out   |-> tests.out \o Stderr("build", pkg),
                 err   |-> pkg.buildFails]
           ELSE [forks |-> tests.forks, out |-> tests.out, err |-> FALSE]

\* the flags of the callers of Build
Flags == { <<"-", "m">>, <<"-", "l">>, <<"-", "N">>, <<"-", "m", "=", "2">> }

\* flags in Context.CompilerFlags
MaxFlags == 3

InitBuild ==
  /\ ParserInit /\ TreeInit /\ EngineInit
  /\ fnIn \in { [fn |-> "Build", pkg |-> pkg, flags |-> fs] :
                  pkg \in Packages,
                  fs \in UNION { [1..n -> Flags] : n \in 0..MaxFlags } }
  /\ fnOut = NotCalled

CallBuild ==
  /\ fnIn.fn = "Build"
  /\ fnOut = NotCalled
  /\ fnOut' = [fn |-> "Build", ret |-> Build(fnIn.pkg, fnIn.flags)]
  /\ UNCHANGED << parserVars, treeVars, engineVars, fnIn >>

NextBuild == CallBuild

SpecBuild == InitBuild /\ [][NextBuild]_vars

\* run builds although the build output was supplied
NeedsBuild_Always(buildOutput) == TRUE

\* ctx.BuildOutput == ""
NeedsBuild(buildOutput) == buildOutput = <<>>

RECURSIVE BuildAll(_, _, _, _)
\* the loop of run over ctx.ImportedPackages from the package i on: the
\* packages built, the content of the buffer, and whether t.Fatalf ended
\* the test
BuildAll(c, pkgs, i, st) ==
  IF i > Len(pkgs) THEN st
  ELSE IF ~NeedsBuild(c.BuildOutput) THEN BuildAll(c, pkgs, i + 1, st)
  ELSE LET r  == Build(pkgs[i], c.CompilerFlags)
           s1 == [built |-> Append(st.built, i),
                  buildOutput |-> st.buildOutput \o r.out,
                  fatal |-> r.err]
       IN  IF r.err THEN s1 ELSE BuildAll(c, pkgs, i + 1, s1)

\* run, from the loop over the imported packages on: the packages built,
\* whether Tree.Run was called, and the BuildOutput of the context handed
\* to it; getErr is whether GetTestCases returns an error
run(c, pkgs, getErr) ==
  LET st   == BuildAll(c, pkgs, 1,
                [built |-> <<>>, buildOutput |-> <<>>, fatal |-> FALSE])
      text == IF c.BuildOutput = <<>> THEN st.buildOutput ELSE c.BuildOutput
  IN  IF st.fatal \/ getErr
      THEN [built |-> st.built, ran |-> FALSE, BuildOutput |-> <<>>]
      ELSE [built |-> st.built, ran |-> TRUE, BuildOutput |-> text]

\* packages in Context.ImportedPackages
MaxPackages == 2

InitLemRun ==
  /\ ParserInit /\ TreeInit /\ EngineInit
  /\ fnIn \in { [fn |-> "run",
                 ctx |-> [BuildOutput |-> out, CompilerFlags |-> << <<"-",
                     "l">> >>],
                 pkgs |-> pkgs, getErr |-> ge] :
                  out \in { <<>>, << <<"f", "1", ".", "g", "o", ":", "1",
                      ":", "2", ":", " ", "x">> >> },
                  pkgs \in UNION { [1..n -> Packages] : n \in 1..MaxPackages },
                  ge \in BOOLEAN }
  /\ fnOut = NotCalled

CallRun ==
  /\ fnIn.fn = "run"
  /\ fnOut = NotCalled
  /\ fnOut' = [fn |-> "run", ret |-> run(fnIn.ctx, fnIn.pkgs, fnIn.getErr)]
  /\ UNCHANGED << parserVars, treeVars, engineVars, fnIn >>

NextLemRun == CallRun

SpecLemRun == InitLemRun /\ [][NextLemRun]_vars

RECURSIVE Concat(_)
Concat(texts) ==
  IF texts = <<>> THEN <<>> ELSE Head(texts) \o Concat(Tail(texts))

\* C29: with a BuildOutput supplied, run builds no package and the tree runs
\* against the supplied text; with none, every package is built in order and
\* the tree runs against their outputs one after the other
C29_SuppliedOutputSkipsBuild ==
  fnOut.fn = "run" =>
    /\ fnIn.ctx.BuildOutput # <<>> =>
         /\ fnOut.ret.built = <<>>
         /\ fnOut.ret.ran <=> ~fnIn.getErr
         /\ fnOut.ret.ran => fnOut.ret.BuildOutput = fnIn.ctx.BuildOutput
    /\ fnIn.ctx.BuildOutput = <<>> /\ fnOut.ret.ran =>
         /\ fnOut.ret.built = [i \in 1..Len(fnIn.pkgs) |-> i]
         /\ fnOut.ret.BuildOutput =
              Concat([i \in 1..Len(fnIn.pkgs) |->
                        Build(fnIn.pkgs[i], fnIn.ctx.CompilerFlags).out])

\* the tree ran against a supplied text for two packages
C29_Witness ==
  /\ fnOut.fn = "run"
  /\ fnIn.ctx.BuildOutput # <<>>
  /\ Len(fnIn.pkgs) = 2
  /\ fnOut.ret.ran

\* the number of the flags among the first i that are not "-m"
Others(flags, i) == Cardinality({ k \in 1..i : flags[k] # <<"-", "m">> })

\* C30: the flag list of every command Build forks starts with "-m", holds
\* it once, and holds after it the caller's other flags in their order; the
\* -gcflags value is that list joined by spaces
C30_FlagsStartWithOneM ==
  fnOut.fn = "Build" =>
    \A j \in 1..Len(fnOut.ret.forks) :
      LET fs == fnOut.ret.forks[j].flags
      IN  /\ fs[1] = <<"-", "m">>
          /\ Cardinality({ k \in 1..Len(fs) : fs[k] = <<"-", "m">> }) = 1
          /\ Len(fs) = 1 + Others(fnIn.flags, Len(fnIn.flags))
          /\ \A i \in 1..Len(fnIn.flags) :
               fnIn.flags[i] # <<"-", "m">> =>
                 fs[1 + Others(fnIn.flags, i)] = fnIn.flags[i]
          /\ fnOut.ret.forks[j].gcflags = Join(fs, <<" ">>)

\* Build forked a command for flags that hold "-m" twice around another flag
C30_Witness ==
  /\ fnOut.fn = "Build"
  /\ Len(fnOut.ret.forks) = 2
  /\ Len(fnIn.flags) = 3
  /\ fnIn.flags[1] = <<"-", "m">>
  /\ fnIn.flags[2] # <<"-", "m">>
  /\ fnIn.flags[3] = <<"-", "m">>

\* ------------------------------------------------------------------------
\* Claims about the handles of the ID index
\* ------------------------------------------------------------------------

\* the handles handed out so far: those of the ID index, which Get returns,
\* and those the Insert calls returned
Handles ==
  { testsByID.kv[id] : id \in DOMAIN testsByID.kv }
  \cup { calls[k].ret : k \in 1..Len(calls) }

\* the leaves reached by traversal after the record behind the handle p was
\* given the name "changed"
LeavesAfterChange(p) ==
  LET changed == [Deref(testHeap, p) EXCEPT !.Name = <<"c", "h", "a", "n",
      "g", "e", "d">>]
      h       == Store(testHeap, p, changed)
  IN  UNION { { LeavesIn(nodes, h, n)[i] :
                  i \in 1..Len(LeavesIn(nodes, h, n)) } :
              n \in 1..Len(nodes) }

\* C31: every handle the ID index holds or an Insert returned designates the
\* live leaf slot of its record: a change made through it is seen in the
\* leaf the traversal reaches
C31_HandlesDesignateLiveLeaves ==
  \A p \in Handles :
    /\ \E n \in 1..Len(nodes) :
         nodes[n].Tests.arr = p.arr /\ p.idx <= nodes[n].Tests.len
    /\ \E tc \in LeavesAfterChange(p) :
         tc.ID = Deref(testHeap, p).ID /\ tc.Name = <<"c", "h", "a", "n",
             "g", "e", "d">>

\* C33: the index at which a match or natch whose pattern compiled reads the
\* lines of its file is inside them, wherever the comment is, and the scan
\* does not panic
C33_SourceIndexInBounds ==
  /\ pc # "panic"
  /\ \A k \in 1..Len(scanned) :
       scanned[k].c.kind \in {"m", "natch"} /\ Compiles(scanned[k].c.arg)
         => scanned[k].line < Len(readLines(fnIn.files[scanned[k].file]))

\* C34: an alloc or bytes directive repeated for an ID raises no error, and
\* the returned record of the ID has the range of the last alloc directive
\* and of the last bytes directive of the ID, Min and Max both
C34_LastRangeDirectiveWins ==
  /\ \A k \in 1..Len(scanned) :
       scanned[k].c.kind \in {"alloc", "bytes"} /\ k = Len(scanned)
         => err = ""
  /\ Returned =>
       \A k \in 1..Len(scanned) :
         /\ scanned[k].c.kind \in {"alloc", "bytes"}
         /\ LastOfKind(k)
         /\ \E j \in 1..(k - 1) :
              /\ scanned[j].c.kind = scanned[k].c.kind
              /\ scanned[j].c.id = scanned[k].c.id
         =>
           \E i \in 1..Len(result) :
             /\ result[i].ID = scanned[k].c.id
             /\ scanned[k].c.kind = "alloc" => result[i].AllocOp = RangeAt(k)
             /\ scanned[k].c.kind = "bytes" => result[i].BytesOp = RangeAt(k)

\* ------------------------------------------------------------------------
\* Insert of records without a path
\* ------------------------------------------------------------------------

\* records whose name is "/" or "//", beside records with a path: a leaf of
\* the root, a leaf below a group, and the empty ID with the empty name
SlashInputs ==
  { TestCase(id, n) : id \in { <<"a">>, <<"b">> }, n \in { <<"/">>, <<"/",
      "/">>, <<"/", "g", "/", "x">> } }
  \cup { TestCase(<<"c">>, EmptyStr), TestCase(EmptyStr, EmptyStr) }

NextSlash ==
  \/ \E testCase \in SlashInputs : Insert(testCase)
  \/ \E id \in { <<"a">>, <<"b">>, EmptyStr } : TreeGetCall(id)

SpecSlash == Init /\ [][NextSlash]_vars

\* the step is the first Insert of an ID, of a record without a path
PathlessInsert ==
  /\ InsertStep
  /\ Arg.ID \notin CallIDs
  /\ Path(Arg) = <<>>

\* the record is appended to the leaves of the root as it was given, no node
\* is added and no other leaf changes, and the ID index leads to the record
C35_PathlessEffect ==
  PathlessInsert =>
    /\ Len(nodes') = Len(nodes)
    /\ nodes'[Root].Steps = nodes[Root].Steps
    /\ nodes'[Root].Nodes = nodes[Root].Nodes
    /\ LeavesIn(nodes', testHeap', Root) = Append(Leaves(Root), Arg)
    /\ \A n \in 2..Len(nodes) : LeavesIn(nodes', testHeap', n) = Leaves(n)
    /\ TreeGet(testsByID', Arg.ID) # NilPtr
    /\ Deref(testHeap', TreeGet(testsByID', Arg.ID)) = Arg

\* every ID inserted is found by Get and has a leaf in the tree
C35_Reachable ==
  \A id \in CallIDs :
    /\ TreeGet(testsByID, id) # NilPtr
    /\ Deref(testHeap, TreeGet(testsByID, id)).ID = id
    /\ SlotsOf(id) # {}

\* C35: the first Insert of an ID whose record has an empty path appends the
\* record to the leaves of the root with its name as given, creates no child
\* node and registers it in the ID index; every inserted ID is found by Get
\* and has a leaf
C35_PathlessRecordIsRootLeaf ==
  []C35_Reachable /\ [][C35_PathlessEffect]_vars

\* a record named "//" is the second leaf of the root of a tree that has a
\* group, and Get has returned it
C35_Witness ==
  /\ Len(nodes) > 1
  /\ Len(Leaves(Root)) = 2
  /\ Leaves(Root)[2].Name = <<"/", "/">>
  /\ lastCall.op = "Get"
  /\ lastCall.ret # NilPtr
  /\ Deref(testHeap, lastCall.ret).Name = <<"/", "/">>

\* C36: in every node the names Run starts sub-tests under are pairwise
\* distinct: no two leaves of the node have the same name and no leaf has the
\* name of a segment of the node
C36_SubtestNamesDistinct ==
  \A n \in 1..Len(nodes) :
    /\ \A i, j \in 1..Len(Leaves(n)) :
         i # j => Leaves(n)[i].Name # Leaves(n)[j].Name
    /\ \A i \in 1..Len(Leaves(n)) :
         \A k \in 1..Len(nodes[n].Steps) :
           Leaves(n)[i].Name # nodes[n].Steps[k]

\* ------------------------------------------------------------------------
\* Context.Copy over a store of maps, backing arrays and build contexts
\* ------------------------------------------------------------------------

\* a new object in the store: the store with it, and its reference
New(st, obj) == [store |-> Append(st, obj), ref |-> Len(st) + 1]

\* a slice header: nil, or the reference of its backing array and its
\* length, the array of an empty slice being none
NilHeader == [nil |-> TRUE, arr |-> 0, len |-> 0]

EmptyHeader == [nil |-> FALSE, arr |-> 0, len |-> 0]

\* the slice with the elements of the value v in a new backing array
LoadSlice(st, v) ==
  IF v.nil THEN [store |-> st, ret |-> NilHeader]
  ELSE IF v.elems = <<>> THEN [store |-> st, ret |-> EmptyHeader]
  ELSE [store |-> New(st, v.elems).store,
        ret   |-> [nil |-> FALSE, arr |-> New(st, v.elems).ref,
                   len |-> Len(v.elems)]]

\* the map with the entries of the value v: 0 is the nil map
LoadMap(st, v) ==
  IF v.nil THEN [store |-> st, ret |-> 0]
  ELSE [store |-> New(st, v.kv).store, ret |-> New(st, v.kv).ref]

\* the build context of the value v with its three tag slices, and the
\* pointer to it: 0 is nil
LoadBuildContext(st, v) ==
  IF v.nil THEN [store |-> st, ret |-> 0]
  ELSE LET b == LoadSlice(st, v.val.BuildTags)
           t == LoadSlice(b.store, v.val.ToolTags)
           r == LoadSlice(t.store, v.val.ReleaseTags)
           n == New(r.store, [v.val EXCEPT !.BuildTags = b.ret,
                                           !.ToolTags = t.ret,
                                           !.ReleaseTags = r.ret])
       IN  [store |-> n.store, ret |-> n.ref]

\* the Context of the value v in a store of its own
LoadContext(v) ==
  LET bm == LoadMap(<<>>, v.Benchmarks)
      bc == LoadBuildContext(bm.store, v.BuildContext)
      cf == LoadSlice(bc.store, v.CompilerFlags)
      ip == LoadSlice(cf.store, v.ImportedPackages)
      pk == LoadSlice(ip.store, v.Packages)
  IN  [store |-> pk.store,
       ret   |-> [Benchmarks |-> bm.ret, BuildContext |-> bc.ret,
                  BuildOutput |-> v.BuildOutput, CompilerFlags |-> cf.ret,
                  ImportedPackages |-> ip.ret, Packages |-> pk.ret]]

\* a copy of a slice that shares the backing array of its source
copySliceIn_Shared(st, src) == [store |-> st, ret |-> src]

\* copyNillableStringSlice and copyNillableImportedPackageSlice: make and
\* the loop that fills the new backing array
copySliceIn(st, src) ==
  IF src.nil THEN [store |-> st, ret |-> NilHeader]
  ELSE IF src.len = 0 THEN [store |-> st, ret |-> EmptyHeader]
  ELSE LET n == New(st, [i \in 1..src.len |-> st[src.arr][i]])
       IN  [store |-> n.store,
            ret   |-> [nil |-> FALSE, arr |-> n.ref, len |-> src.len]]

\* copyNillableBenchmarksMap
copyMapIn(st, src) ==
  IF src = 0 THEN [store |-> st, ret |-> 0]
  ELSE LET n == New(st, [k \in DOMAIN st[src] |-> st[src][k]])
       IN  [store |-> n.store, ret |-> n.ref]

\* copyNillableGoBuildContext: the fields of copyGoBuildContext that are no
\* slice are those of the source, GOPATH being its GOROOT
copyBuildContextIn(st, src) ==
  IF src = 0 THEN [store |-> st, ret |-> 0]
  ELSE LET b == copySliceIn(st, st[src].BuildTags)
           t == copySliceIn(b.store, st[src].ToolTags)
           r == copySliceIn(t.store, st[src].ReleaseTags)
           n == New(r.store, [st[src] EXCEPT !.GOPATH = st[src].GOROOT,
                                             !.BuildTags = b.ret,
                                             !.ToolTags = t.ret,
                                             !.ReleaseTags = r.ret])
       IN  [store |-> n.store, ret |-> n.ref]

\* Context.Copy
CopyIn(st, src) ==
  LET bm == copyMapIn(st, src.Benchmarks)
      bc == copyBuildContextIn(bm.store, src.BuildContext)
      cf == copySliceIn(bc.store, src.CompilerFlags)
      ip == copySliceIn(cf.store, src.ImportedPackages)
      pk == copySliceIn(ip.store, src.Packages)
  IN  [store |-> pk.store,
       ret   |-> [Benchmarks |-> bm.ret, BuildContext |-> bc.ret,
                  BuildOutput |-> src.BuildOutput, CompilerFlags |-> cf.ret,
                  ImportedPackages |-> ip.ret, Packages |-> pk.ret]]

\* the Contexts copied: those of LemContexts with one GOROOT, no hook and
\* no build output
StoredContexts ==
  { c \in LemContexts :
      /\ c.BuildOutput = EmptyStr
      /\ ~c.BuildContext.nil =>
           /\ c.BuildContext.val.GOROOT = <<"r">>
           /\ c.BuildContext.val.JoinPath = "nil"
           /\ ~c.BuildContext.val.CgoEnabled }

InitStored ==
  /\ ParserInit /\ TreeInit /\ EngineInit
  /\ fnIn \in { [fn |-> "Copy", store |-> LoadContext(c).store,
                 src |-> LoadContext(c).ret] : c \in StoredContexts }
  /\ fnOut = NotCalled

CallCopyIn ==
  /\ fnIn.fn = "Copy"
  /\ fnOut = NotCalled
  /\ fnOut' = [fn    |-> "Copy",
               store |-> CopyIn(fnIn.store, fnIn.src).store,
               ret   |-> CopyIn(fnIn.store, fnIn.src).ret]
  /\ UNCHANGED << parserVars, treeVars, engineVars, fnIn >>

\* the caller changes the slice s it holds: s[0] = "z", s = append(s, "z"),
\* or s = append(s[:0], s[1:]...): the store and the header after it
ChangeSlice(st, s, op) ==
  CASE op = "replace" ->
         [store |-> [st EXCEPT ![s.arr][1] = <<"z">>], ret |-> s]
    [] op = "remove" ->
         [store |-> [st EXCEPT ![s.arr] =
                       [i \in 1..Len(@) |->
                          IF i < s.len THEN @[i + 1] ELSE @[i]]],
          ret   |-> [s EXCEPT !.len = @ - 1]]
    [] OTHER ->
         LET old == IF s.len = 0 THEN <<>> ELSE SubSeq(st[s.arr], 1, s.len)
             n   == New(st, Append(old, <<"z">>))
         IN  [store |-> n.store,
              ret   |-> [nil |-> FALSE, arr |-> n.ref, len |-> s.len + 1]]

SliceOps(s) == IF s.len = 0 THEN {"append"} ELSE {"replace", "remove",
    "append"}

\* the caller changes CompilerFlags, Packages or ImportedPackages of the copy
ChangeCopySlice ==
  /\ fnOut.fn = "Copy"
  /\ \E f \in {"CompilerFlags", "Packages", "ImportedPackages"} :
       \E op \in SliceOps(fnOut.ret[f]) :
         LET c == ChangeSlice(fnOut.store, fnOut.ret[f], op)
         IN  fnOut' = [fn |-> "Changed", store |-> c.store,
                       ret |-> [fnOut.ret EXCEPT ![f] = c.ret]]
  /\ UNCHANGED << parserVars, treeVars, engineVars, fnIn >>

\* the caller changes a tag slice of the build context of the copy
ChangeCopyTags ==
  /\ fnOut.fn = "Copy"
  /\ fnOut.ret.BuildContext # 0
  /\ \E f \in {"BuildTags", "ToolTags", "ReleaseTags"} :
       \E op \in SliceOps(fnOut.store[fnOut.ret.BuildContext][f]) :
         LET p == fnOut.ret.BuildContext
             c == ChangeSlice(fnOut.store, fnOut.store[p][f], op)
         IN  fnOut' = [fn |-> "Changed",
                       store |-> [c.store EXCEPT ![p][f] = c.ret],
                       ret |-> fnOut.ret]
  /\ UNCHANGED << parserVars, treeVars, engineVars, fnIn >>

\* the caller sets or deletes the entry "a" of the Benchmarks of the copy
ChangeCopyBenchmarks ==
  /\ fnOut.fn = "Copy"
  /\ fnOut.ret.Benchmarks # 0
  /\ LET m == fnOut.ret.Benchmarks
         kv == fnOut.store[m]
     IN  \E op \in {"set", "delete"} :
           fnOut' = [fn |-> "Changed",
                     store |-> [fnOut.store EXCEPT ![m] =
                                  IF op = "set"
                                  THEN MapPut(EmptyMap, <<"a">>,
                                      "BenchmarkZ").kv
                                  ELSE [k \in DOMAIN kv \ { <<"a">> } |-> kv[k]]],
                     ret |-> fnOut.ret]
  /\ UNCHANGED << parserVars, treeVars, engineVars, fnIn >>

NextStored ==
  \/ CallCopyIn
  \/ ChangeCopySlice
  \/ ChangeCopyTags
  \/ ChangeCopyBenchmarks

SpecStored == InitStored /\ [][NextStored]_vars

\* the value of a slice, of a map and of a Context in a store
SliceValue(st, s) ==
  IF s.nil THEN NilSeq
  ELSE SliceOf(IF s.len = 0 THEN <<>> ELSE SubSeq(st[s.arr], 1, s.len))

MapValue(st, m) == IF m = 0 THEN NilMap ELSE [nil |-> FALSE, kv |-> st[m]]

ContextValue(st, c) ==
  [Benchmarks |-> MapValue(st, c.Benchmarks),
   BuildContext |->
     IF c.BuildContext = 0 THEN NilBuildContext
     ELSE PtrTo([st[c.BuildContext] EXCEPT
                   !.BuildTags = SliceValue(st, @),
                   !.ToolTags = SliceValue(st, @),
                   !.ReleaseTags = SliceValue(st, @)]),
   BuildOutput |-> c.BuildOutput,
   CompilerFlags |-> SliceValue(st, c.CompilerFlags),
   ImportedPackages |-> SliceValue(st, c.ImportedPackages),
   Packages |-> SliceValue(st, c.Packages)]

\* C37: whatever the caller changes in the maps and slices of a copy, the
\* source Context keeps the value it had; the copy of a nil map or slice is
\* nil and the copy of any other has the same entries
C37_CopyIsIndependent ==
  fnOut.fn \in {"Copy", "Changed"} =>
    /\ ContextValue(fnOut.store, fnIn.src) = ContextValue(fnIn.store,
        fnIn.src)
    /\ fnOut.fn = "Copy" =>
         LET s == ContextValue(fnIn.store, fnIn.src)
             d == ContextValue(fnOut.store, fnOut.ret)
         IN  /\ d.Benchmarks = s.Benchmarks
             /\ d.CompilerFlags = s.CompilerFlags
             /\ d.ImportedPackages = s.ImportedPackages
             /\ d.Packages = s.Packages
             /\ d.BuildContext.nil = s.BuildContext.nil
             /\ ~s.BuildContext.nil =>
                  /\ d.BuildContext.val.BuildTags = s.BuildContext.val.BuildTags
                  /\ d.BuildContext.val.ToolTags = s.BuildContext.val.ToolTags
                  /\ d.BuildContext.val.ReleaseTags =
                       s.BuildContext.val.ReleaseTags

\* an element of a slice of the copy was replaced and the copy differs
\* from its source in it
C37_Witness ==
  /\ fnOut.fn = "Changed"
  /\ fnOut.ret.CompilerFlags.len = 2
  /\ ContextValue(fnOut.store, fnOut.ret).CompilerFlags
       # ContextValue(fnOut.store, fnIn.src).CompilerFlags
  /\ fnIn.src.Benchmarks # 0

\* ------------------------------------------------------------------------
\* TreeNode.deepEqual under the iteration order of range over a map
\* ------------------------------------------------------------------------

\* the orders in which range can yield the keys in S
KeyOrders(S) ==
  { o \in [1..Cardinality(S) -> S] : \A i,
      j \in DOMAIN o : o[i] = o[j] => i = j }

RECURSIVE IterOrdersUpTo(_, _)
\* for each of the first k nodes of the tree t, an order of the keys of its
\* Index
IterOrdersUpTo(t, k) ==
  IF k = 0 THEN { <<>> }
  ELSE { Append(s, o) : s \in IterOrdersUpTo(t, k - 1),
                        o \in KeyOrders(DOMAIN t.nodes[k].Index.kv) }

IterOrders(t) == IterOrdersUpTo(t, Len(t.nodes))

\* a loop over Index that looks at the first key that range yields and at
\* no other
rangeIndex_FirstKeyOnly(keys, trIndex, bIndex) ==
  \A i \in 1..Len(keys) :
    i = 1 => /\ MapHas(bIndex, keys[i])
             /\ trIndex.kv[keys[i]] = bIndex.kv[keys[i]]

\* the loop of deepEqual over tr.Index, the keys coming in the order keys:
\* false at the first key that b.Index lacks or has with another value
rangeIndex(keys, trIndex, bIndex) ==
  \A i \in 1..Len(keys) :
    /\ MapHas(bIndex, keys[i])
    /\ trIndex.kv[keys[i]] = bIndex.kv[keys[i]]

RECURSIVE TreeNodeDeepEqualIn(_, _, _, _, _)
\* TreeNode.deepEqual on the node n of the tree ta and the node m of the
\* tree tb, range yielding the keys of the Index of a node of ta in the
\* order ord has for it
TreeNodeDeepEqualIn(ord, ta, n, tb, m) ==
  LET tr     == ta.nodes[n]
      b      == tb.nodes[m]
      trTests == Elems(ta.heap, tr.Tests)
      bTests  == Elems(tb.heap, b.Tests)
  IN  IF Cardinality(DOMAIN tr.Index.kv) # Cardinality(DOMAIN b.Index.kv)
      THEN FALSE
      ELSE IF ~rangeIndex(ord[n], tr.Index, b.Index) THEN FALSE
      ELSE IF Len(tr.Steps) # Len(b.Steps) THEN FALSE
      ELSE IF \E i \in 1..Len(tr.Steps) : tr.Steps[i] # b.Steps[i] THEN FALSE
      ELSE IF Len(trTests) # Len(bTests) THEN FALSE
      ELSE IF \E i \in 1..Len(trTests) :
                ~TestCaseDeepEqual(trTests[i], bTests[i]) THEN FALSE
      ELSE IF Len(tr.Nodes) # Len(b.Nodes) THEN FALSE
      ELSE \A i \in 1..Len(tr.Nodes) :
             TreeNodeDeepEqualIn(ord, ta, tr.Nodes[i], tb, b.Nodes[i])

RECURSIVE RunVisits(_, _, _)
\* the sub-tests TreeNode.run starts for the node n of the tree t from its
\* child i on: each group with those below it, then the leaves of n
RunVisits(t, n, i) ==
  IF i > Len(t.nodes[n].Steps)
  THEN [j \in 1..Len(Elems(t.heap, t.nodes[n].Tests)) |->
          << "test", Elems(t.heap, t.nodes[n].Tests)[j].ID,
             Elems(t.heap, t.nodes[n].Tests)[j].Name >>]
  ELSE << << "group", t.nodes[n].Steps[i] >> >>
       \o RunVisits(t, t.nodes[n].Nodes[i], 1) \o RunVisits(t, n, i + 1)

\* records in the groups g and k of the root and h and k of g
IterCases ==
  << [TestCase(<<"a">>, <<"/", "g", "/",
      "x">>) EXCEPT !.Matches = << MatchX >>],
     TestCase(<<"b">>, <<"/", "k", "/", "y">>),
     TestCase(<<"c">>, <<"/", "g", "/", "h", "/", "z">>),
     TestCase(<<"d">>, <<"/", "g", "/", "k", "/", "w">>) >>

\* records handed to NewTree for a tree that is compared
MaxIterTests == 2

IterSeqs ==
  { [i \in DOMAIN ks |-> IterCases[ks[i]]] :
      ks \in UNION { [1..n -> 1..Len(IterCases)] : n \in 0..MaxIterTests } }

\* the tree t written as a literal in which the key k of the Index of the
\* node n has the next number
OtherIndex(t, n, k) ==
  [TreeLiteral(t) EXCEPT !.nodes[n].Index.kv[k] = @ + 1]

\* the calls: two trees made by NewTree, and a tree with a literal that
\* differs from it in one number of one Index
IterCalls ==
  { [fn |-> "deepEqual", made |-> TRUE, as |-> as, bs |-> bs,
     tr |-> Tree(NewTree(as)), b |-> Tree(NewTree(bs))] :
      as \in IterSeqs, bs \in IterSeqs }
  \cup UNION { UNION { {
      [fn |-> "deepEqual", made |-> FALSE, as |-> as, bs |-> as,
       tr |-> Tree(NewTree(as)),
       b |-> OtherIndex(Tree(NewTree(as)), n, k)] :
         k \in DOMAIN NewTree(as).nodes[n].Index.kv } :
         n \in 1..Len(NewTree(as).nodes) } : as \in IterSeqs }

InitIter ==
  /\ ParserInit /\ TreeInit /\ EngineInit
  /\ fnIn \in IterCalls
  /\ fnOut = NotCalled

\* DeepEqual, the runtime choosing the order of every range over an Index
CallDeepEqualIn ==
  /\ fnIn.fn = "deepEqual"
  /\ fnOut = NotCalled
  /\ \E ord \in IterOrders(fnIn.tr) :
       fnOut' = [fn |-> "deepEqual", ord |-> ord,
                 ret |-> TreeNodeDeepEqualIn(ord, fnIn.tr, Root, fnIn.b,
                     Root)]
  /\ UNCHANGED << parserVars, treeVars, engineVars, fnIn >>

NextIter == CallDeepEqualIn

SpecIter == InitIter /\ [][NextIter]_vars

\* C32: whatever order range yields the keys of Index in, DeepEqual says
\* whether the two trees have the same content; two trees made from the
\* same sequence of records are DeepEqual, and Run starts the same groups
\* and leaves in the same order in two trees that are DeepEqual
C32_OrderOfRangeIsNotSeen ==
  fnOut.fn = "deepEqual" =>
    /\ fnOut.ret <=> NodeValue(fnIn.tr, Root) = NodeValue(fnIn.b, Root)
    /\ fnIn.made /\ fnIn.as = fnIn.bs => fnOut.ret
    /\ fnOut.ret => RunVisits(fnIn.tr, Root, 1) = RunVisits(fnIn.b, Root, 1)

\* a tree whose root has two groups was compared with a tree made from the
\* same records, range yielding the second group first
C32_Witness ==
  /\ fnOut.fn = "deepEqual"
  /\ fnIn.made /\ fnIn.as = fnIn.bs
  /\ Len(fnIn.tr.nodes[Root].Steps) = 2
  /\ fnOut.ord[Root][1] = fnIn.tr.nodes[Root].Steps[2]
  /\ fnOut.ret

====
